---------------------------- MODULE Spec2Model ----------------------------
(***************************************************************************)
(* Raw-input capture core of Capture_Mouse_Python.                         *)
(*                                                                         *)
(* Three reader classes share one design and differ in detail:             *)
(*   RawInputReader           src/rawInput.py                              *)
(*   ImprovedRawInputReader   src/improved_raw_input.py                    *)
(*   CompleteRawInputCapture  src/complete_raw_input.py                    *)
(* The variable impl says which class the modelled instance is; every      *)
(* operator below is the translation of one method of one class.           *)
(* The consumer is AdvancedMouseTracker (src/advanced_mouse_tracker.py):   *)
(* its callback puts the reader's events on input_queue and its animation  *)
(* tick drains the queue.                                                  *)
(*                                                                         *)
(* The operating system is the environment: the outcome of each            *)
(* RegisterRawInputDevices call, the message PeekMessage/GetMessage        *)
(* returns, the byte counts GetRawInputData reports and the content of the *)
(* report are chosen by \E from the sets named in each specification.      *)
(***************************************************************************)
EXTENDS Integers, Sequences, FiniteSets, TLC

VARIABLES
    impl,          \* the class of the instance
    pc,            \* position of run()
    running,       \* self.running
    callback,      \* self.callback is set
    hwnd,          \* self.hwnd: 1 a window handle, 0 None/NULL
    stats,         \* the statistics fields of the instance
    delivered,     \* the events handed to self.callback, in call order
    processed,     \* the messages the loop retrieved, with their outcome
    regEnv,        \* what the OS answers to each registration call
    regLog,        \* the RegisterRawInputDevices calls made, in order
    regResult,     \* what the registration method returned
    regCalls,      \* number of calls of the registration method
    osRegistered,  \* device classes the OS has registered for the process
    windowAlive,   \* the window of hwnd exists (not yet destroyed)
    stopped_at,    \* messages handled when stop() was last called, -1 if never
    run_exit,      \* why run() left its loop, and what run() returned
    now,           \* the latest reading of time.time(), in seconds
    last_activity_time, \* the local last_activity_time of RawInputReader.run
    reports,       \* the activity reports printed, in order
    input_queue,   \* AdvancedMouseTracker.input_queue: the items queued
    pushed,        \* the items put on input_queue, in put order
    consumed,      \* the items get_nowait returned, in return order
    tpc,           \* position of the consumer in process_raw_input_data
    drain_data,    \* the local variable data of process_raw_input_data
    tracker,       \* the raw-input fields of the AdvancedMouseTracker
    worker         \* position of the tracker's raw_input_worker thread

\* the variables of the reader and those of the consumer
loopVars == <<stopped_at, run_exit, now, last_activity_time, reports>>

readerVars == <<impl, pc, running, callback, hwnd, stats, delivered, processed,
                regEnv, regLog, regResult, regCalls, osRegistered, windowAlive,
                stopped_at, run_exit, now, last_activity_time, reports>>

trackerVars == <<input_queue, pushed, consumed, tpc, drain_data, tracker,
                 worker>>

vars == <<impl, pc, running, callback, hwnd, stats, delivered, processed,
          regEnv, regLog, regResult, regCalls, osRegistered, windowAlive,
          stopped_at, run_exit, now, last_activity_time, reports,
          input_queue, pushed, consumed, tpc, drain_data, tracker, worker>>

-----------------------------------------------------------------------------
(* Bounds of the model *)

\* messages one run of the loop retrieves
MaxMsgs == 2

\* pointer reports one run of the loop retrieves when only motion is fed
MaxMoves == 3

\* events the capture context puts on the input queue
MaxPushed == 3

\* seconds of clock the loop of run() is followed for
MaxTime == 8

-----------------------------------------------------------------------------
(* Program constants *)

WM_INPUT == 255
RIM_TYPEMOUSE == 0
RIM_TYPEKEYBOARD == 1
RIM_TYPEHID == 2
RIDEV_INPUTSINK == 256
RIDEV_NOLEGACY == 48
RI_MOUSE_LEFT_BUTTON_DOWN == 1
RI_MOUSE_LEFT_BUTTON_UP == 2
RI_MOUSE_RIGHT_BUTTON_DOWN == 4
RI_MOUSE_RIGHT_BUTTON_UP == 8
RI_MOUSE_MIDDLE_BUTTON_DOWN == 16
RI_MOUSE_MIDDLE_BUTTON_UP == 32
RI_MOUSE_WHEEL == 1024
\* usUsage of the two device classes (usUsagePage 0x01, Generic Desktop)
USAGE_MOUSE == 2
USAGE_KEYBOARD == 6
\* wintypes.USHORT holds 0 .. 2^16 - 1
USHORT_MAX == 65535
\* bRawData is declared ctypes.c_byte * 1
RAWDATA_LEN == 1
\* the cap on extracted HID bytes
HID_CAP == 64

Impls == {"RawInputReader", "ImprovedRawInputReader", "CompleteRawInputCapture"}

NULL == 0

-----------------------------------------------------------------------------
(* Integer helpers: Python's & on non-negative ints, ctypes.c_short *)

RECURSIVE BitAnd(_, _)
BitAnd(a, b) ==
    IF a = 0 \/ b = 0 THEN 0
    ELSE (a % 2) * (b % 2) + 2 * BitAnd(a \div 2, b \div 2)

\* ctypes.c_short(v).value without the wrap: the raw unsigned field
c_short_unsigned(v) == v

\* ctypes.c_short(v).value: v taken modulo 2^16 and read as two's complement
c_short(v) == ((v + 32768) % 65536) - 32768

Min(a, b) == IF a < b THEN a ELSE b

-----------------------------------------------------------------------------
(* Device registration *)

\* what one RegisterRawInputDevices call can do: return TRUE, return FALSE,
\* or raise inside ctypes
Outcome == {"ok", "fail", "raise"}

\* user32.RegisterRawInputDevices(devices, n, size) where acc[i] is the OS's
\* answer for the i-th device of the array: the call registers all devices of
\* the array or none
RegisterRawInputDevices(acc) ==
    IF \E i \in DOMAIN acc : acc[i] = "raise" THEN "raise"
    ELSE IF \A i \in DOMAIN acc : acc[i] = "ok" THEN "ok"
    ELSE "fail"

\* The five "methods" of RawInputReader.register_devices: the RAWINPUTDEVICE
\* each builds (usUsage of every device in the array, dwFlags, hwndTarget)
Rungs(h) ==
    << [usUsage |-> <<USAGE_MOUSE>>, dwFlags |-> RIDEV_INPUTSINK, hwndTarget |-> h],
       [usUsage |-> <<USAGE_MOUSE>>, dwFlags |-> RIDEV_NOLEGACY,  hwndTarget |-> h],
       [usUsage |-> <<USAGE_MOUSE>>, dwFlags |-> 0,               hwndTarget |-> h],
       [usUsage |-> <<USAGE_MOUSE>>, dwFlags |-> RIDEV_INPUTSINK, hwndTarget |-> NULL],
       [usUsage |-> <<USAGE_MOUSE>>, dwFlags |-> 0,               hwndTarget |-> NULL] >>

\* one entry of regLog
RegCall(r, dev, out) ==
    [rung |-> r, usUsage |-> dev.usUsage, dwFlags |-> dev.dwFlags,
     hwndTarget |-> dev.hwndTarget, outcome |-> out]

\* rungs r.. of the ladder; env[r] is the OS's answer to rung r's call
RECURSIVE LadderFrom(_, _, _, _)
LadderFrom(r, h, env, log) ==
    IF r > Len(Rungs(h)) THEN [log |-> log, result |-> FALSE, raised |-> FALSE]
    ELSE LET dev == Rungs(h)[r]
             out == RegisterRawInputDevices([i \in DOMAIN dev.usUsage |-> env[r]])
             log1 == Append(log, RegCall(r, dev, out))
         IN  IF out = "ok"
             THEN [log |-> log1, result |-> TRUE, raised |-> FALSE]
             ELSE LadderFrom(r + 1, h, env, log1)

\* the ladder without the early return: every rung is tried
RECURSIVE LadderAllFrom(_, _, _, _, _)
LadderAllFrom(r, h, env, log, any) ==
    IF r > Len(Rungs(h)) THEN [log |-> log, result |-> any, raised |-> FALSE]
    ELSE LET dev == Rungs(h)[r]
             out == RegisterRawInputDevices([i \in DOMAIN dev.usUsage |-> env[r]])
         IN  LadderAllFrom(r + 1, h, env, Append(log, RegCall(r, dev, out)),
                           any \/ out = "ok")

register_devices_NoEarlyReturn(h, env) == LadderAllFrom(1, h, env, <<>>, FALSE)

\* the ladder with one try around all rungs: an exception ends it
RECURSIVE LadderOneTryFrom(_, _, _, _)
LadderOneTryFrom(r, h, env, log) ==
    IF r > Len(Rungs(h)) THEN [log |-> log, result |-> FALSE, raised |-> FALSE]
    ELSE LET dev == Rungs(h)[r]
             out == RegisterRawInputDevices([i \in DOMAIN dev.usUsage |-> env[r]])
             log1 == Append(log, RegCall(r, dev, out))
         IN  IF out = "ok" THEN [log |-> log1, result |-> TRUE, raised |-> FALSE]
             ELSE IF out = "raise" THEN [log |-> log1, result |-> FALSE, raised |-> FALSE]
             ELSE LadderOneTryFrom(r + 1, h, env, log1)

register_devices_OneTry(h, env) == LadderOneTryFrom(1, h, env, <<>>)

\* RawInputReader.register_devices
register_devices(h, env) == LadderFrom(1, h, env, <<>>)

\* ImprovedRawInputReader.register_devices: env[1] answers the mouse call,
\* env[2] the keyboard call
Improved_register_devices(h, env) ==
    LET mouse == [usUsage |-> <<USAGE_MOUSE>>, dwFlags |-> RIDEV_INPUTSINK, hwndTarget |-> h]
        kbd   == [usUsage |-> <<USAGE_KEYBOARD>>, dwFlags |-> RIDEV_INPUTSINK, hwndTarget |-> h]
        m     == RegisterRawInputDevices(<<env[1]>>)
        k     == RegisterRawInputDevices(<<env[2]>>)
    IN  IF h = NULL THEN [log |-> <<>>, result |-> FALSE, raised |-> FALSE]
        ELSE IF m # "ok"
             THEN [log |-> <<RegCall(1, mouse, m)>>, result |-> FALSE, raised |-> FALSE]
             ELSE [log |-> <<RegCall(1, mouse, m), RegCall(1, kbd, k)>>,
                   result |-> (k # "raise"), raised |-> FALSE]

\* CompleteRawInputCapture.register_raw_input with the two devices registered
\* one after the other and the keyboard's result ignored
Complete_register_raw_input_Split(h, env) ==
    LET mouse == [usUsage |-> <<USAGE_MOUSE>>, dwFlags |-> RIDEV_INPUTSINK, hwndTarget |-> h]
        kbd   == [usUsage |-> <<USAGE_KEYBOARD>>, dwFlags |-> RIDEV_INPUTSINK, hwndTarget |-> h]
        m     == RegisterRawInputDevices(<<env[1]>>)
        k     == RegisterRawInputDevices(<<env[2]>>)
    IN  IF m # "ok"
        THEN [log |-> <<RegCall(1, mouse, m)>>, result |-> FALSE, raised |-> (m = "raise")]
        ELSE [log |-> <<RegCall(1, mouse, m), RegCall(1, kbd, k)>>,
              result |-> (k # "raise"), raised |-> (k = "raise")]

\* CompleteRawInputCapture.register_raw_input: one call with the array
\* (mouse, keyboard); env[1], env[2] are the OS's answers for the two devices.
\* There is no try: an exception leaves the method.
Complete_register_raw_input(h, env) ==
    LET both == [usUsage |-> <<USAGE_MOUSE, USAGE_KEYBOARD>>,
                 dwFlags |-> RIDEV_INPUTSINK, hwndTarget |-> h]
        out  == RegisterRawInputDevices(<<env[1], env[2]>>)
    IN  [log |-> <<RegCall(1, both, out)>>, result |-> (out = "ok"),
         raised |-> (out = "raise")]

\* the device classes the OS holds registered after the calls of a log
RegisteredBy(log) ==
    UNION { {log[i].usUsage[j] : j \in DOMAIN log[i].usUsage} :
            i \in {k \in DOMAIN log : log[k].outcome = "ok"} }

ResultName(res) ==
    IF res.raised THEN "raised" ELSE IF res.result THEN "true" ELSE "false"

-----------------------------------------------------------------------------
(* Messages and raw reports *)

\* a message other than WM_INPUT (WM_TIMER)
WM_OTHER == 275
\* byte size of a RAWINPUT holding a RAWMOUSE
SIZE_RAWINPUT == 48
\* what GetRawInputData returns on error: (UINT)-1 read through c_int
FETCH_ERROR == -1
\* a dwType that is none of RIM_TYPEMOUSE, RIM_TYPEKEYBOARD, RIM_TYPEHID
RIM_TYPE_UNKNOWN == 3

\* One retrieved message together with what the OS answers when the handler
\* asks for its report: size is what the size query writes, fetched what the
\* fetch returns, the other fields are the RAWINPUT the buffer then holds.
\* raise says where, if anywhere, an exception is raised while the message
\* is handled: "decode" in GetRawInputData/cast, "cb1"/"cb2" in the first /
\* second call of the callback.
BaseMsg ==
    [message |-> WM_INPUT, size |-> SIZE_RAWINPUT, fetched |-> SIZE_RAWINPUT,
     dwType |-> RIM_TYPEMOUSE, hDevice |-> 1,
     usFlags |-> 0, usButtonFlags |-> 0, usButtonData |-> 0,
     lLastX |-> 0, lLastY |-> 0,
     Flags |-> 0, VKey |-> 0, MakeCode |-> 0,
     dwSizeHid |-> 0, dwCount |-> 0, bRawData |-> <<0>>,
     raise |-> "none"]

MouseMsg(dx, dy, bf, bd) ==
    [BaseMsg EXCEPT !.lLastX = dx, !.lLastY = dy,
                    !.usButtonFlags = bf, !.usButtonData = bd]

KeyMsg(vk, sc, fl) ==
    [BaseMsg EXCEPT !.dwType = RIM_TYPEKEYBOARD, !.VKey = vk, !.MakeCode = sc,
                    !.Flags = fl]

HidMsg(sz, cnt, b0) ==
    [BaseMsg EXCEPT !.dwType = RIM_TYPEHID, !.dwSizeHid = sz, !.dwCount = cnt,
                    !.bRawData = <<b0>>]

RaiseAt(msg) ==
    CASE msg.raise = "cb1" -> 1
      [] msg.raise = "cb2" -> 2
      [] OTHER -> 0

-----------------------------------------------------------------------------
(* Statistics and events *)

\* the statistics fields set by __init__ (last_key None is -1;
\* CompleteRawInputCapture calls the totals total_x, total_y and also
\* counts mouse_moves)
InitStats ==
    [total_mouse_x |-> 0, total_mouse_y |-> 0, mouse_clicks |-> 0,
     mouse_wheel_delta |-> 0, key_presses |-> 0, last_key |-> -1,
     hid_data_count |-> 0, raw_input_messages |-> 0, mouse_moves |-> 0]

\* the if/elif chain with the two branches of the middle button left out
ButtonOf_NoMiddle(bf) ==
    IF BitAnd(bf, RI_MOUSE_LEFT_BUTTON_DOWN) # 0 THEN <<"Left", "Down">>
    ELSE IF BitAnd(bf, RI_MOUSE_LEFT_BUTTON_UP) # 0 THEN <<"Left", "Up">>
    ELSE IF BitAnd(bf, RI_MOUSE_RIGHT_BUTTON_DOWN) # 0 THEN <<"Right", "Down">>
    ELSE IF BitAnd(bf, RI_MOUSE_RIGHT_BUTTON_UP) # 0 THEN <<"Right", "Up">>
    ELSE <<"Unknown", "Unknown">>

\* the if/elif chain over the six button bits (without the wheel)
ButtonOf(bf) ==
    IF BitAnd(bf, RI_MOUSE_LEFT_BUTTON_DOWN) # 0 THEN <<"Left", "Down">>
    ELSE IF BitAnd(bf, RI_MOUSE_LEFT_BUTTON_UP) # 0 THEN <<"Left", "Up">>
    ELSE IF BitAnd(bf, RI_MOUSE_RIGHT_BUTTON_DOWN) # 0 THEN <<"Right", "Down">>
    ELSE IF BitAnd(bf, RI_MOUSE_RIGHT_BUTTON_UP) # 0 THEN <<"Right", "Up">>
    ELSE IF BitAnd(bf, RI_MOUSE_MIDDLE_BUTTON_DOWN) # 0 THEN <<"Middle", "Down">>
    ELSE IF BitAnd(bf, RI_MOUSE_MIDDLE_BUTTON_UP) # 0 THEN <<"Middle", "Up">>
    ELSE <<"Unknown", "Unknown">>

\* the movement part with = written for +=
MoveStats_Overwrite(st, msg) ==
    [st EXCEPT !.total_mouse_x = msg.lLastX,
               !.total_mouse_y = msg.lLastY]

\* the mouse_move event and the state after the movement part of a report
MoveStats(st, msg) ==
    [st EXCEPT !.total_mouse_x = @ + msg.lLastX,
               !.total_mouse_y = @ + msg.lLastY]

\* a mouse_move event whose deltas are taken from the running totals
MoveEvent_Absolute(st, msg) ==
    [type |-> "mouse_move", delta_x |-> st.total_mouse_x,
     delta_y |-> st.total_mouse_y,
     total_x |-> st.total_mouse_x, total_y |-> st.total_mouse_y,
     flags |-> msg.usFlags]

MoveEvent(st, msg) ==
    [type |-> "mouse_move", delta_x |-> msg.lLastX, delta_y |-> msg.lLastY,
     total_x |-> st.total_mouse_x, total_y |-> st.total_mouse_y,
     flags |-> msg.usFlags]

WheelEvent(st, delta) ==
    [type |-> "mouse_wheel", delta |-> delta,
     total_delta |-> st.mouse_wheel_delta]

ButtonEvent(st, bf) ==
    [type |-> "mouse_button", button |-> ButtonOf(bf)[1],
     state |-> ButtonOf(bf)[2], click_count |-> st.mouse_clicks]

\* the pointer handler without the test of the delta: every report counts
\* as a movement
process_mouse_data_AnyDelta(st, msg, hasCb, raiseAt) ==
    LET st1   == MoveStats(st, msg)
        n1    == IF hasCb THEN 1 ELSE 0
        ev1   == IF n1 = 1 THEN <<MoveEvent(st1, msg)>> ELSE <<>>
        bf    == msg.usButtonFlags
    IN  IF n1 = 1 /\ raiseAt = 1 THEN [st |-> st1, ev |-> ev1, exc |-> TRUE]
        ELSE IF bf = 0 THEN [st |-> st1, ev |-> ev1, exc |-> FALSE]
        ELSE LET st2   == [st1 EXCEPT !.mouse_clicks = @ + 1]
                 wheel == BitAnd(bf, RI_MOUSE_WHEEL) # 0
                 delta == c_short(msg.usButtonData)
                 st3   == IF wheel
                          THEN [st2 EXCEPT !.mouse_wheel_delta = @ + delta]
                          ELSE st2
                 data  == IF wheel THEN WheelEvent(st3, delta)
                          ELSE ButtonEvent(st3, bf)
             IN  [st  |-> st3,
                  ev  |-> IF hasCb THEN Append(ev1, data) ELSE ev1,
                  exc |-> hasCb /\ raiseAt = n1 + 1]

\* RawInputReader.process_mouse_data.  hasCb: self.callback is set;
\* raiseAt: the number of the callback call that raises (0 none).
\* Result: the statistics, the events handed to the callback, and whether an
\* exception left the method.
process_mouse_data(st, msg, hasCb, raiseAt) ==
    LET moved == msg.lLastX # 0 \/ msg.lLastY # 0
        st1   == IF moved THEN MoveStats(st, msg) ELSE st
        n1    == IF moved /\ hasCb THEN 1 ELSE 0
        ev1   == IF n1 = 1 THEN <<MoveEvent(st1, msg)>> ELSE <<>>
        bf    == msg.usButtonFlags
    IN  IF n1 = 1 /\ raiseAt = 1 THEN [st |-> st1, ev |-> ev1, exc |-> TRUE]
        ELSE IF bf = 0 THEN [st |-> st1, ev |-> ev1, exc |-> FALSE]
        ELSE LET st2   == [st1 EXCEPT !.mouse_clicks = @ + 1]
                 wheel == BitAnd(bf, RI_MOUSE_WHEEL) # 0
                 delta == c_short(msg.usButtonData)
                 st3   == IF wheel
                          THEN [st2 EXCEPT !.mouse_wheel_delta = @ + delta]
                          ELSE st2
                 data  == IF wheel THEN WheelEvent(st3, delta)
                          ELSE ButtonEvent(st3, bf)
             IN  [st  |-> st3,
                  ev  |-> IF hasCb THEN Append(ev1, data) ELSE ev1,
                  exc |-> hasCb /\ raiseAt = n1 + 1]

\* the pointer handler of ImprovedRawInputReader with the button part run
\* before the movement part
Improved_process_mouse_data_ButtonFirst(st, msg, hasCb, raiseAt) ==
    LET moved == msg.lLastX # 0 \/ msg.lLastY # 0
        st1   == IF moved THEN MoveStats(st, msg) ELSE st
        n1    == IF moved /\ hasCb THEN 1 ELSE 0
        ev1   == IF n1 = 1 THEN <<MoveEvent(st1, msg)>> ELSE <<>>
        bf    == msg.usButtonFlags
    IN  IF bf = 0
        THEN [st |-> st1, ev |-> ev1, exc |-> n1 = 1 /\ raiseAt = 1]
        ELSE LET st2   == [st1 EXCEPT !.mouse_clicks = @ + 1]
                 wheel == ButtonOf(bf) = <<"Unknown", "Unknown">>
                          /\ BitAnd(bf, RI_MOUSE_WHEEL) # 0
                 delta == c_short(msg.usButtonData)
                 st3   == IF wheel
                          THEN [st2 EXCEPT !.mouse_wheel_delta = @ + delta]
                          ELSE st2
                 data  == IF wheel THEN WheelEvent(st3, delta)
                          ELSE ButtonEvent(st3, bf)
             IN  IF hasCb /\ raiseAt = 1
                 THEN [st |-> st3, ev |-> <<data>>, exc |-> TRUE]
                 ELSE [st  |-> st3,
                       ev  |-> IF hasCb THEN <<data>> \o ev1 ELSE ev1,
                       exc |-> n1 = 1 /\ raiseAt = 2]

\* ImprovedRawInputReader.process_mouse_data: the wheel is the last branch of
\* the button chain and returns after its own callback call
Improved_process_mouse_data(st, msg, hasCb, raiseAt) ==
    LET moved == msg.lLastX # 0 \/ msg.lLastY # 0
        st1   == IF moved THEN MoveStats(st, msg) ELSE st
        n1    == IF moved /\ hasCb THEN 1 ELSE 0
        ev1   == IF n1 = 1 THEN <<MoveEvent(st1, msg)>> ELSE <<>>
        bf    == msg.usButtonFlags
    IN  IF n1 = 1 /\ raiseAt = 1 THEN [st |-> st1, ev |-> ev1, exc |-> TRUE]
        ELSE IF bf = 0 THEN [st |-> st1, ev |-> ev1, exc |-> FALSE]
        ELSE LET st2   == [st1 EXCEPT !.mouse_clicks = @ + 1]
                 wheel == ButtonOf(bf) = <<"Unknown", "Unknown">>
                          /\ BitAnd(bf, RI_MOUSE_WHEEL) # 0
                 delta == c_short(msg.usButtonData)
                 st3   == IF wheel
                          THEN [st2 EXCEPT !.mouse_wheel_delta = @ + delta]
                          ELSE st2
                 data  == IF wheel THEN WheelEvent(st3, delta)
                          ELSE ButtonEvent(st3, bf)
             IN  [st  |-> st3,
                  ev  |-> IF hasCb THEN Append(ev1, data) ELSE ev1,
                  exc |-> hasCb /\ raiseAt = n1 + 1]

\* CompleteRawInputCapture writes the names of buttons and actions in lower
\* case
lower(s) ==
    CASE s = "Left" -> "left"
      [] s = "Right" -> "right"
      [] s = "Middle" -> "middle"
      [] s = "Down" -> "down"
      [] s = "Up" -> "up"
      [] OTHER -> "unknown"

\* CompleteRawInputCapture.decode_mouse_button
decode_mouse_button(button_flags, button_data) ==
    IF ButtonOf(button_flags) # <<"Unknown", "Unknown">>
    THEN [button |-> lower(ButtonOf(button_flags)[1]),
          action |-> lower(ButtonOf(button_flags)[2]),
          data |-> 0]
    ELSE IF BitAnd(button_flags, RI_MOUSE_WHEEL) # 0
    THEN [button |-> "wheel",
          action |-> IF c_short(button_data) > 0 THEN "up" ELSE "down",
          data |-> c_short(button_data)]
    ELSE [button |-> "unknown", action |-> "unknown", data |-> 0]

\* CompleteRawInputCapture.handle_mouse_input (without a callback the method
\* prints and hands nothing over)
Complete_handle_mouse_input(st, msg, hasCb, raiseAt) ==
    LET moved == msg.lLastX # 0 \/ msg.lLastY # 0
        st1   == IF moved
                 THEN [MoveStats(st, msg) EXCEPT !.mouse_moves = @ + 1]
                 ELSE st
        n1    == IF moved /\ hasCb THEN 1 ELSE 0
        ev1   == IF n1 = 1
                 THEN << [type |-> "mouse_move", delta_x |-> msg.lLastX,
                          delta_y |-> msg.lLastY, total_x |-> st1.total_mouse_x,
                          total_y |-> st1.total_mouse_y,
                          move_count |-> st1.mouse_moves] >>
                 ELSE <<>>
        bf    == msg.usButtonFlags
    IN  IF n1 = 1 /\ raiseAt = 1 THEN [st |-> st1, ev |-> ev1, exc |-> TRUE]
        ELSE IF bf = 0 THEN [st |-> st1, ev |-> ev1, exc |-> FALSE]
        ELSE LET st2  == [st1 EXCEPT !.mouse_clicks = @ + 1]
                 info == decode_mouse_button(bf, msg.usButtonData)
                 data == [type |-> "mouse_button", button |-> info.button,
                          action |-> info.action, data |-> info.data,
                          click_count |-> st2.mouse_clicks]
             IN  [st  |-> st2,
                  ev  |-> IF hasCb THEN Append(ev1, data) ELSE ev1,
                  exc |-> hasCb /\ raiseAt = n1 + 1]

\* process_keyboard_data / handle_keyboard_input.  RawInputReader and
\* CompleteRawInputCapture name the states "down"/"up",
\* ImprovedRawInputReader "Down"/"Up"; CompleteRawInputCapture keeps no
\* last_key.
\* the key state with the whole of Flags tested instead of bit 0
KeyState_AnyBit(cls, fl) ==
    IF fl = 0
    THEN (IF cls = "ImprovedRawInputReader" THEN "Down" ELSE "down")
    ELSE (IF cls = "ImprovedRawInputReader" THEN "Up" ELSE "up")

KeyState(cls, fl) ==
    IF BitAnd(fl, 1) = 0
    THEN (IF cls = "ImprovedRawInputReader" THEN "Down" ELSE "down")
    ELSE (IF cls = "ImprovedRawInputReader" THEN "Up" ELSE "up")

\* the keyboard handler counting key-down reports only
process_keyboard_data_DownOnly(cls, st, msg, hasCb, raiseAt) ==
    LET n   == IF BitAnd(msg.Flags, 1) = 0 THEN 1 ELSE 0
        st1 == IF cls = "CompleteRawInputCapture"
               THEN [st EXCEPT !.key_presses = @ + n]
               ELSE [st EXCEPT !.key_presses = @ + n, !.last_key = msg.VKey]
        data == [type |-> "keyboard", vkey |-> msg.VKey,
                 scan_code |-> msg.MakeCode, flags |-> msg.Flags,
                 state |-> KeyState(cls, msg.Flags),
                 key_count |-> st1.key_presses]
    IN  [st  |-> st1,
         ev  |-> IF hasCb THEN <<data>> ELSE <<>>,
         exc |-> hasCb /\ raiseAt = 1]

process_keyboard_data(cls, st, msg, hasCb, raiseAt) ==
    LET st1 == IF cls = "CompleteRawInputCapture"
               THEN [st EXCEPT !.key_presses = @ + 1]
               ELSE [st EXCEPT !.key_presses = @ + 1, !.last_key = msg.VKey]
        data == [type |-> "keyboard", vkey |-> msg.VKey,
                 scan_code |-> msg.MakeCode, flags |-> msg.Flags,
                 state |-> KeyState(cls, msg.Flags),
                 key_count |-> st1.key_presses]
    IN  [st  |-> st1,
         ev  |-> IF hasCb THEN <<data>> ELSE <<>>,
         exc |-> hasCb /\ raiseAt = 1]

\* process_hid_data.  bRawData has RAWDATA_LEN elements and ctypes raises
\* IndexError beyond them: RawInputReader catches it and stops reading,
\* ImprovedRawInputReader lets it leave the method.
process_hid_data(cls, st, msg, hasCb, raiseAt) ==
    LET st1       == [st EXCEPT !.hid_data_count = @ + 1]
        max_bytes == Min(msg.dwSizeHid * msg.dwCount, HID_CAP)
        raw_bytes == SubSeq(msg.bRawData, 1, Min(max_bytes, RAWDATA_LEN))
        data      == [type |-> "hid", device_handle |-> msg.hDevice,
                      size |-> msg.dwSizeHid, count |-> msg.dwCount,
                      raw_bytes |-> raw_bytes,
                      data_count |-> st1.hid_data_count]
    IN  IF cls = "ImprovedRawInputReader" /\ max_bytes > RAWDATA_LEN
        THEN [st |-> st1, ev |-> <<>>, exc |-> TRUE]
        ELSE [st  |-> st1,
              ev  |-> IF hasCb THEN <<data>> ELSE <<>>,
              exc |-> hasCb /\ raiseAt = 1]

\* a dispatch whose last branch is an else: every report that is neither a
\* pointer nor a keyboard report goes to the HID handler
Dispatch_ElseHid(cls, st, msg, hasCb) ==
    CASE msg.dwType = RIM_TYPEMOUSE ->
           (CASE cls = "RawInputReader" ->
                   process_mouse_data(st, msg, hasCb, RaiseAt(msg))
              [] cls = "ImprovedRawInputReader" ->
                   Improved_process_mouse_data(st, msg, hasCb, RaiseAt(msg))
              [] OTHER ->
                   Complete_handle_mouse_input(st, msg, hasCb, RaiseAt(msg)))
      [] msg.dwType = RIM_TYPEKEYBOARD ->
           process_keyboard_data(cls, st, msg, hasCb, RaiseAt(msg))
      [] OTHER ->
           process_hid_data(cls, st, msg, hasCb, RaiseAt(msg))

\* the dispatch on header.dwType that ends process_raw_input /
\* handle_raw_input (CompleteRawInputCapture has no HID branch)
Dispatch(cls, st, msg, hasCb) ==
    CASE msg.dwType = RIM_TYPEMOUSE ->
           (CASE cls = "RawInputReader" ->
                   process_mouse_data(st, msg, hasCb, RaiseAt(msg))
              [] cls = "ImprovedRawInputReader" ->
                   Improved_process_mouse_data(st, msg, hasCb, RaiseAt(msg))
              [] OTHER ->
                   Complete_handle_mouse_input(st, msg, hasCb, RaiseAt(msg)))
      [] msg.dwType = RIM_TYPEKEYBOARD ->
           process_keyboard_data(cls, st, msg, hasCb, RaiseAt(msg))
      [] msg.dwType = RIM_TYPEHID /\ cls # "CompleteRawInputCapture" ->
           process_hid_data(cls, st, msg, hasCb, RaiseAt(msg))
      [] OTHER -> [st |-> st, ev |-> <<>>, exc |-> FALSE]

KnownType(cls, msg) ==
    \/ msg.dwType \in {RIM_TYPEMOUSE, RIM_TYPEKEYBOARD}
    \/ msg.dwType = RIM_TYPEHID /\ cls # "CompleteRawInputCapture"

\* what handling one message came to
Handled(st, ev, outcome, propagates) ==
    [st |-> st, ev |-> ev, outcome |-> outcome, propagates |-> propagates]

\* the parse with the count of raw messages left out
Parse_Uncounted(cls, st, msg, hasCb, countRaw, caught) ==
    LET r == Dispatch(cls, st, msg, hasCb)
    IN  Handled(r.st, r.ev,
                IF r.exc THEN "exception"
                ELSE IF KnownType(cls, msg) THEN "ok" ELSE "unknown",
                r.exc /\ ~caught)

\* process_raw_input / handle_raw_input after the two GetRawInputData calls
\* passed their checks; countRaw: the class counts raw_input_messages
Parse(cls, st, msg, hasCb, countRaw, caught) ==
    LET st1 == IF countRaw
               THEN [st EXCEPT !.raw_input_messages = @ + 1]
               ELSE st
        r   == Dispatch(cls, st1, msg, hasCb)
    IN  Handled(r.st, r.ev,
                IF r.exc THEN "exception"
                ELSE IF KnownType(cls, msg) THEN "ok" ELSE "unknown",
                r.exc /\ ~caught)

\* RawInputReader.process_raw_input without the comparison of the fetched
\* byte count with the queried size
process_raw_input_NoSizeCheck(st, msg, hasCb) ==
    IF msg.raise = "decode" THEN Handled(st, <<>>, "exception", FALSE)
    ELSE IF msg.size = 0 THEN Handled(st, <<>>, "empty", FALSE)
    ELSE Parse("RawInputReader", st, msg, hasCb, TRUE, TRUE)

\* RawInputReader.process_raw_input without its try/except
process_raw_input_NoTry(st, msg, hasCb) ==
    IF msg.raise = "decode" THEN Handled(st, <<>>, "exception", TRUE)
    ELSE IF msg.size = 0 THEN Handled(st, <<>>, "empty", FALSE)
    ELSE IF msg.fetched # msg.size THEN Handled(st, <<>>, "mismatch", FALSE)
    ELSE Parse("RawInputReader", st, msg, hasCb, TRUE, FALSE)

\* RawInputReader.process_raw_input
process_raw_input(st, msg, hasCb) ==
    IF msg.raise = "decode" THEN Handled(st, <<>>, "exception", FALSE)
    ELSE IF msg.size = 0 THEN Handled(st, <<>>, "empty", FALSE)
    ELSE IF msg.fetched # msg.size THEN Handled(st, <<>>, "mismatch", FALSE)
    ELSE Parse("RawInputReader", st, msg, hasCb, TRUE, TRUE)

\* ImprovedRawInputReader.process_raw_input and
\* CompleteRawInputCapture.handle_raw_input: no check of a zero size, no
\* raw_input_messages
Other_process_raw_input(cls, st, msg, hasCb) ==
    IF msg.raise = "decode" THEN Handled(st, <<>>, "exception", FALSE)
    ELSE IF msg.fetched # msg.size THEN Handled(st, <<>>, "mismatch", FALSE)
    ELSE Parse(cls, st, msg, hasCb, FALSE, TRUE)

\* the handler of the instance's class
HandleRawInput(cls, st, msg, hasCb) ==
    IF cls = "RawInputReader" THEN process_raw_input(st, msg, hasCb)
    ELSE Other_process_raw_input(cls, st, msg, hasCb)

-----------------------------------------------------------------------------
(* The inputs the specifications draw from *)

\* message identifiers CompleteRawInputCapture's window procedure tells apart
WM_CLOSE == 16
\* activity_check_interval of RawInputReader.run, in seconds
activity_check_interval == 5

AllOf(n, v) == [i \in 1..n |-> v]

\* every answer the OS can give to the registration calls of a class: one per
\* rung for RawInputReader, one per device for the other two
AllRegEnvs(cls) ==
    IF cls = "RawInputReader" THEN [1..5 -> Outcome] ELSE [1..2 -> Outcome]

\* a few of them: everything accepted, nothing accepted, and for the classes
\* with a keyboard call the keyboard refused or raising
SomeRegEnvs(cls) ==
    CASE cls = "RawInputReader" -> { AllOf(5, "ok"), AllOf(5, "fail") }
      [] cls = "ImprovedRawInputReader" ->
           { AllOf(2, "ok"), <<"ok", "fail">>, AllOf(2, "fail") }
      [] OTHER ->
           { AllOf(2, "ok"), <<"ok", "fail">>, <<"ok", "raise">> }

\* reports whose decode fails, one of each kind
FailingMsgs ==
    { [MouseMsg(5, 0, RI_MOUSE_LEFT_BUTTON_DOWN, 0) EXCEPT !.size = 0, !.fetched = FETCH_ERROR],
      [MouseMsg(5, 0, RI_MOUSE_LEFT_BUTTON_DOWN, 0) EXCEPT !.fetched = FETCH_ERROR],
      [MouseMsg(5, 0, RI_MOUSE_LEFT_BUTTON_DOWN, 0) EXCEPT !.dwType = RIM_TYPE_UNKNOWN],
      [MouseMsg(5, 0, RI_MOUSE_LEFT_BUTTON_DOWN, 0) EXCEPT !.raise = "decode"],
      [MouseMsg(5, 0, RI_MOUSE_LEFT_BUTTON_DOWN, 0) EXCEPT !.raise = "cb1"],
      [MouseMsg(5, 0, RI_MOUSE_LEFT_BUTTON_DOWN, 0) EXCEPT !.raise = "cb2"] }

\* pointer reports: motion only, nothing, buttons only, wheel only, both
MouseMsgs ==
    { MouseMsg(5, 0, 0, 0), MouseMsg(-5, -5, 0, 0), MouseMsg(0, 0, 0, 0),
      MouseMsg(0, 0, RI_MOUSE_LEFT_BUTTON_DOWN, 0),
      MouseMsg(0, 0, RI_MOUSE_LEFT_BUTTON_DOWN + RI_MOUSE_RIGHT_BUTTON_DOWN, 0),
      MouseMsg(0, 0, RI_MOUSE_WHEEL + RI_MOUSE_LEFT_BUTTON_DOWN, 120),
      MouseMsg(0, 0, RI_MOUSE_WHEEL, 120),
      MouseMsg(0, 0, RI_MOUSE_WHEEL, 65416),
      MouseMsg(5, 0, RI_MOUSE_LEFT_BUTTON_DOWN, 0),
      MouseMsg(0, 5, RI_MOUSE_WHEEL, 65416) }

KeyMsgs == { KeyMsg(65, 30, 0), KeyMsg(65, 30, 1) }

HidMsgs == { HidMsg(1, 1, 127), HidMsg(8, 25, 127) }

OtherMsgs == { [BaseMsg EXCEPT !.message = WM_OTHER] }

\* the messages the loop of a class may retrieve
SomeMsgs(cls) ==
    FailingMsgs \cup MouseMsgs \cup KeyMsgs \cup HidMsgs \cup OtherMsgs
    \cup (IF cls = "CompleteRawInputCapture"
          THEN { [BaseMsg EXCEPT !.message = WM_CLOSE] } ELSE {})

\* wheel reports with every 16-bit usButtonData
WheelMsgs == { MouseMsg(0, 0, RI_MOUSE_WHEEL, v) : v \in 0..USHORT_MAX }

\* events RawInputReader hands to its callback: one of each type
ChannelEvents ==
    { MoveEvent(MoveStats(InitStats, MouseMsg(5, 0, 0, 0)), MouseMsg(5, 0, 0, 0)),
      ButtonEvent([InitStats EXCEPT !.mouse_clicks = 1], RI_MOUSE_LEFT_BUTTON_DOWN),
      WheelEvent([InitStats EXCEPT !.mouse_wheel_delta = -120], -120),
      [type |-> "hid", device_handle |-> 1, size |-> 1, count |-> 1,
       raw_bytes |-> <<127>>, data_count |-> 1] }

\* keyboard reports with every 16-bit Flags
KeyFlagMsgs == { KeyMsg(65, 30, fl) : fl \in 0..USHORT_MAX }

\* pointer reports that move, one that only presses a button and one whose
\* fetch fails
MoveMsgs ==
    { MouseMsg(5, 0, 0, 0), MouseMsg(0, 5, 0, 0), MouseMsg(-5, -5, 0, 0),
      MouseMsg(0, 0, RI_MOUSE_LEFT_BUTTON_DOWN, 0),
      [MouseMsg(5, 0, 0, 0) EXCEPT !.fetched = FETCH_ERROR] }

\* pointer reports with every 16-bit usButtonFlags (usButtonData one notch of
\* the wheel)
ButtonMsgs == { MouseMsg(0, 0, bf, 120) : bf \in 0..USHORT_MAX }

-----------------------------------------------------------------------------
(* The consumer: AdvancedMouseTracker *)

\* data before the first get_nowait
NoData == [id |-> 0, data |-> [type |-> "none"]]

\* the points the line-history buffer holds: __init__ sets 5000, and the
\* handlers only compare with it and reduce modulo it; the model takes a
\* buffer that the movements of a run fill and wrap
max_history_points == 2

\* the movements a tracker handles in a run of the history specification
MaxHistoryMoves == 5

\* the size of the screen: winfo_screenwidth() and winfo_screenheight()
screen_width == 5

screen_height == 5

\* the positions the pointer is reported at: by GetCursorPos in the raw
\* handler, by event.x and event.y in the Tk <Motion> fallback
CursorPoints == { <<0, 0>>, <<0, 5>> }

\* math.sqrt, to the whole number below: 0 exactly when n = 0
Sqrt(n) == CHOOSE r \in 0..n : r * r <= n /\ (r + 1) * (r + 1) > n

\* math.atan2(y, x) in degrees, for the deltas of the model, which lie on
\* the axes and on the diagonals; atan2(0, 0) is 0
atan2(y, x) ==
    CASE y = 0 /\ x >= 0 -> 0
      [] y = 0 /\ x < 0 -> 180
      [] x = 0 /\ y > 0 -> 90
      [] x = 0 /\ y < 0 -> -90
      [] x = y /\ x > 0 -> 45
      [] x = y /\ x < 0 -> -135
      [] x = -y /\ y > 0 -> 135
      [] x = -y /\ y < 0 -> -45

\* max(0, min(v, hi)): the position kept inside the screen
Clamp(v, hi) == IF v < 0 THEN 0 ELSE IF v > hi THEN hi ELSE v

\* the fields AdvancedMouseTracker.__init__ sets that the handlers of input
\* read or write (trail, pins and widgets are left out); the pointer starts
\* at a position of the screen. stored_since_reset is a history variable:
\* the points written to history_points since reset_history_points() last
\* ran, or since construction
InitTracker ==
    [class |-> "AdvancedMouseTracker",
     total_mouse_movements |-> 0, click_count |-> 0, wheel_delta |-> 0,
     raw_input_active |-> FALSE, raw_delta_x |-> 0, raw_delta_y |-> 0,
     movement_velocity |-> 0, movement_direction |-> 0,
     current_x |-> 0, current_y |-> 0,
     show_line_history |-> TRUE, history_index |-> 0, history_count |-> 0,
     stored_since_reset |-> 0]

\* if self.show_line_history: the point is written at history_index, which
\* then advances around the buffer of size points; history_count grows until
\* the buffer is full
StorePoint(tr, size) ==
    IF tr.show_line_history
    THEN [tr EXCEPT !.history_index = (@ + 1) % size,
                    !.history_count = IF @ < size THEN @ + 1 ELSE @,
                    !.stored_since_reset = @ + 1]
    ELSE tr

\* point is what GetCursorPos answers
handle_raw_mouse_movement(tr, d, point, size) ==
    LET velocity == Sqrt(d.delta_x * d.delta_x + d.delta_y * d.delta_y)
    IN  StorePoint(
            [tr EXCEPT !.raw_input_active = TRUE,
                       !.raw_delta_x = d.delta_x,
                       !.raw_delta_y = d.delta_y,
                       !.movement_velocity = velocity,
                       !.movement_direction =
                           IF velocity > 0 THEN atan2(d.delta_y, d.delta_x)
                           ELSE @,
                       !.total_mouse_movements = @ + 1,
                       !.current_x = Clamp(point[1], screen_width),
                       !.current_y = Clamp(point[2], screen_height)],
            size)

handle_raw_mouse_button(tr, d) ==
    IF d.state = "Down" THEN [tr EXCEPT !.click_count = @ + 1] ELSE tr

\* a wheel handler that takes the total from the reader's counter
handle_raw_mouse_wheel_Shared(tr, d) ==
    [tr EXCEPT !.wheel_delta = stats.mouse_wheel_delta]

handle_raw_mouse_wheel(tr, d) ==
    [tr EXCEPT !.wheel_delta = @ + d.delta]

handle_raw_keyboard(tr, d) == tr

\* the if/elif chain of process_raw_input_data over data['type']; an event of
\* another type ('hid') is taken from the queue and dropped
DispatchEvent(tr, d, point) ==
    CASE d.type = "mouse_move" ->
             handle_raw_mouse_movement(tr, d, point, max_history_points)
      [] d.type = "mouse_button" -> handle_raw_mouse_button(tr, d)
      [] d.type = "mouse_wheel" -> handle_raw_mouse_wheel(tr, d)
      [] d.type = "keyboard" -> handle_raw_keyboard(tr, d)
      [] OTHER -> tr

\* run() has not left its loop and has not returned
NoExit == [cause |-> "none", returned |-> "pending"]

-----------------------------------------------------------------------------
(* State after construction *)

\* the reader, its run() and the queue after construction
InitCapture ==
    /\ impl \in Impls
    /\ pc = "idle"
    /\ running = FALSE
    /\ callback = FALSE
    \* RawInputReader.__init__ creates the message window, which may fail;
    \* the other two classes create theirs in run()
    /\ hwnd \in (IF impl = "RawInputReader" THEN {1, NULL} ELSE {NULL})
    /\ windowAlive = (hwnd # NULL)
    /\ stats = InitStats
    /\ delivered = <<>>
    /\ processed = <<>>
    /\ regEnv = <<>>
    /\ regLog = <<>>
    /\ regResult = "none"
    /\ regCalls = 0
    /\ osRegistered = {}
    /\ stopped_at = -1
    /\ run_exit = NoExit
    /\ now = 0
    /\ last_activity_time = 0
    /\ reports = <<>>
    /\ worker = "none"
    /\ input_queue = <<>>
    /\ pushed = <<>>
    /\ consumed = <<>>
    /\ tpc = "tick"
    /\ drain_data = NoData

Init ==
    /\ InitCapture
    /\ tracker = InitTracker

-----------------------------------------------------------------------------
(* Operations *)

\* set_callback(callback_func), before run()
SetCallback ==
    /\ pc = "idle"
    /\ ~callback
    /\ callback' = TRUE
    /\ UNCHANGED <<impl, pc, running, hwnd, stats, delivered, processed,
                   regEnv, regLog, regResult, regCalls, osRegistered, windowAlive>>
    /\ UNCHANGED loopVars
    /\ UNCHANGED trackerVars

\* stop(), from any thread: RawInputReader only clears the flag
Stop ==
    /\ impl = "RawInputReader"
    /\ pc # "done"
    /\ running' = FALSE
    /\ stopped_at' = Len(processed)
    /\ UNCHANGED <<impl, pc, callback, hwnd, stats, delivered, processed,
                   regEnv, regLog, regResult, regCalls, osRegistered, windowAlive>>
    /\ UNCHANGED <<run_exit, now, last_activity_time, reports>>
    /\ UNCHANGED trackerVars

\* ImprovedRawInputReader.run up to create_window: running is set first, the
\* Tk window gives the handle
Improved_Run_CreateWindow ==
    /\ impl = "ImprovedRawInputReader"
    /\ pc = "idle"
    /\ running' = TRUE
    /\ hwnd' = 1
    /\ windowAlive' = TRUE
    /\ pc' = "created"
    /\ UNCHANGED <<impl, callback, stats, delivered, processed,
                   regEnv, regLog, regResult, regCalls, osRegistered>>
    /\ UNCHANGED loopVars
    /\ UNCHANGED trackerVars

\* CompleteRawInputCapture.run up to create_window: a failure returns False
\* from run() through its finally
Complete_Run_CreateWindow ==
    /\ impl = "CompleteRawInputCapture"
    /\ pc = "idle"
    /\ \E created \in BOOLEAN :
         /\ hwnd' = IF created THEN 1 ELSE NULL
         /\ windowAlive' = created
         /\ pc' = IF created THEN "created" ELSE "cleanup"
         /\ run_exit' = IF created THEN run_exit
                        ELSE [run_exit EXCEPT !.cause = "no_window"]
    /\ UNCHANGED <<impl, running, callback, stats, delivered, processed,
                   regEnv, regLog, regResult, regCalls, osRegistered>>
    /\ UNCHANGED <<stopped_at, now, last_activity_time, reports>>
    /\ UNCHANGED trackerVars

\* the registration method of each class
RegisterFor(cls, h, env) ==
    CASE cls = "RawInputReader" -> register_devices(h, env)
      [] cls = "ImprovedRawInputReader" -> Improved_register_devices(h, env)
      [] OTHER -> Complete_register_raw_input(h, env)

\* run() that gives up when the registration failed
Run_Register_GiveUp(envs) ==
    /\ pc = (IF impl = "RawInputReader" THEN "idle" ELSE "created")
    /\ \E env \in envs :
         LET res == RegisterFor(impl, hwnd, env)
         IN  /\ regEnv' = env
             /\ regLog' = res.log
             /\ regResult' = ResultName(res)
             /\ osRegistered' = osRegistered \cup RegisteredBy(res.log)
             /\ pc' = CASE res.raised \/ ~res.result -> "cleanup"
                        [] impl = "ImprovedRawInputReader" -> "mainloop"
                        [] OTHER -> "registered"
             /\ run_exit' = IF res.raised \/ ~res.result
                            THEN [run_exit EXCEPT !.cause = "exception"]
                            ELSE run_exit
    /\ regCalls' = regCalls + 1
    /\ UNCHANGED <<impl, running, callback, hwnd, stats, delivered, processed,
                   windowAlive>>
    /\ UNCHANGED <<stopped_at, now, last_activity_time, reports>>
    /\ UNCHANGED trackerVars

\* run(): the call of register_devices() / register_raw_input().  Whatever it
\* returns, run() goes on; only an exception leaving
\* CompleteRawInputCapture.register_raw_input ends run() through its finally.
Run_Register(envs) ==
    /\ pc = (IF impl = "RawInputReader" THEN "idle" ELSE "created")
    /\ \E env \in envs :
         LET res == RegisterFor(impl, hwnd, env)
         IN  /\ regEnv' = env
             /\ regLog' = res.log
             /\ regResult' = ResultName(res)
             /\ osRegistered' = osRegistered \cup RegisteredBy(res.log)
             /\ pc' = CASE res.raised -> "cleanup"
                        [] impl = "ImprovedRawInputReader" -> "mainloop"
                        [] OTHER -> "registered"
             /\ run_exit' = IF res.raised
                            THEN [run_exit EXCEPT !.cause = "exception"]
                            ELSE run_exit
    /\ regCalls' = regCalls + 1
    /\ UNCHANGED <<impl, running, callback, hwnd, stats, delivered, processed,
                   windowAlive>>
    /\ UNCHANGED <<stopped_at, now, last_activity_time, reports>>
    /\ UNCHANGED trackerVars

\* self.running = True, just before the loop (RawInputReader.run,
\* CompleteRawInputCapture.run_message_loop); RawInputReader.run then reads
\* the clock into last_activity_time
Run_SetRunning ==
    /\ impl # "ImprovedRawInputReader"
    /\ pc = "registered"
    /\ running' = TRUE
    /\ last_activity_time' = IF impl = "RawInputReader" THEN now
                             ELSE last_activity_time
    /\ pc' = "loop"
    /\ UNCHANGED <<impl, callback, hwnd, stats, delivered, processed,
                   regEnv, regLog, regResult, regCalls, osRegistered, windowAlive>>
    /\ UNCHANGED <<stopped_at, run_exit, now, reports>>
    /\ UNCHANGED trackerVars

\* while self.running:
Run_LoopTest ==
    /\ impl # "ImprovedRawInputReader"
    /\ pc = "loop"
    /\ pc' = IF running THEN "body" ELSE "cleanup"
    /\ run_exit' = IF running THEN run_exit
                   ELSE [run_exit EXCEPT !.cause = "stop"]
    /\ UNCHANGED <<impl, running, callback, hwnd, stats, delivered, processed,
                   regEnv, regLog, regResult, regCalls, osRegistered, windowAlive>>
    /\ UNCHANGED <<stopped_at, now, last_activity_time, reports>>
    /\ UNCHANGED trackerVars

\* the state change of handling one retrieved message with result r
Record(msg, r) ==
    /\ stats' = r.st
    /\ delivered' = delivered \o r.ev
    /\ processed' = Append(processed, [msg |-> msg, outcome |-> r.outcome])

\* an activity report that counts every message the loop retrieved
ActivityReport_AnyMessage(last, cur, st) ==
    IF cur - last > activity_check_interval
    THEN /\ reports' = Append(reports, [time |-> cur,
                          raw_input_messages |-> Len(processed')])
         /\ last_activity_time' = cur
    ELSE /\ reports' = reports
         /\ last_activity_time' = last

\* the periodic activity reporting at the end of an iteration of
\* RawInputReader.run: last is last_activity_time, cur the clock reading and
\* st the statistics after the message of the iteration
ActivityReport(last, cur, st) ==
    IF cur - last > activity_check_interval
    THEN /\ reports' = Append(reports, [time |-> cur,
                          raw_input_messages |-> st.raw_input_messages])
         /\ last_activity_time' = cur
    ELSE /\ reports' = reports
         /\ last_activity_time' = last

\* an iteration that looks at the flag once a message is retrieved and leaves
\* the loop without handling the message when stop() was called meanwhile
Run_IterateAt_Abandon(msgs, limit, steps) ==
    /\ impl = "RawInputReader"
    /\ pc = "body"
    /\ \E dt \in {d \in steps : now + d <= MaxTime} :
         /\ now' = now + dt
         /\ \/ /\ pc' = "loop"
               /\ UNCHANGED <<stats, delivered, processed, run_exit>>
               /\ ActivityReport(last_activity_time, now', stats)
            \/ /\ Len(processed) < limit
               /\ \E msg \in msgs :
                    LET r == IF ~running
                             THEN Handled(stats, <<>>, "abandoned", TRUE)
                             ELSE IF msg.message = WM_INPUT
                             THEN HandleRawInput(impl, stats, msg, callback)
                             ELSE Handled(stats, <<>>, "dispatched", FALSE)
                    IN  /\ Record(msg, r)
                        /\ IF r.propagates
                           THEN /\ pc' = "cleanup"
                                /\ run_exit' =
                                     [run_exit EXCEPT !.cause = "stop"]
                                /\ UNCHANGED <<last_activity_time, reports>>
                           ELSE /\ pc' = "loop"
                                /\ UNCHANGED run_exit
                                /\ ActivityReport(
                                     IF msg.message = WM_INPUT THEN now'
                                     ELSE last_activity_time, now', r.st)
    /\ UNCHANGED <<impl, running, callback, hwnd, regEnv, regLog, regResult,
                   regCalls, osRegistered, windowAlive, stopped_at>>
    /\ UNCHANGED trackerVars

\* One iteration of RawInputReader.run's loop: PeekMessageW, then
\* process_raw_input for WM_INPUT or Translate/DispatchMessage for anything
\* else, then the activity report and the sleep.  An exception that reaches
\* run() ends the loop.  The iteration ends dt seconds after the previous
\* one, dt in steps; the clock is read when the iteration ends.
Run_IterateAt(msgs, limit, steps) ==
    /\ impl = "RawInputReader"
    /\ pc = "body"
    /\ \E dt \in {d \in steps : now + d <= MaxTime} :
         /\ now' = now + dt
         /\ \/ /\ pc' = "loop"
               /\ UNCHANGED <<stats, delivered, processed, run_exit>>
               /\ ActivityReport(last_activity_time, now', stats)
            \/ /\ Len(processed) < limit
               /\ \E msg \in msgs :
                    LET r == IF msg.message = WM_INPUT
                             THEN HandleRawInput(impl, stats, msg, callback)
                             ELSE Handled(stats, <<>>, "dispatched", FALSE)
                    IN  /\ Record(msg, r)
                        /\ IF r.propagates
                           THEN /\ pc' = "cleanup"
                                /\ run_exit' =
                                     [run_exit EXCEPT !.cause = "exception"]
                                /\ UNCHANGED <<last_activity_time, reports>>
                           ELSE /\ pc' = "loop"
                                /\ UNCHANGED run_exit
                                /\ ActivityReport(
                                     IF msg.message = WM_INPUT THEN now'
                                     ELSE last_activity_time, now', r.st)
    /\ UNCHANGED <<impl, running, callback, hwnd, regEnv, regLog, regResult,
                   regCalls, osRegistered, windowAlive, stopped_at>>
    /\ UNCHANGED trackerVars

\* an iteration during which the clock reading does not change
Run_Iterate(msgs, limit) == Run_IterateAt(msgs, limit, {0})

\* KeyboardInterrupt while RawInputReader.run is in its loop
Run_Interrupted ==
    /\ impl = "RawInputReader"
    /\ pc \in {"loop", "body"}
    /\ pc' = "cleanup"
    /\ run_exit' = [run_exit EXCEPT !.cause = "interrupt"]
    /\ UNCHANGED <<impl, running, callback, hwnd, stats, delivered, processed,
                   regEnv, regLog, regResult, regCalls, osRegistered, windowAlive>>
    /\ UNCHANGED <<stopped_at, now, last_activity_time, reports>>
    /\ UNCHANGED trackerVars

\* a window procedure that hands every message to handle_raw_input
Complete_GetMessage_AllRaw(msgs, limit) ==
    /\ impl = "CompleteRawInputCapture"
    /\ pc = "body"
    /\ \/ /\ \E bRet \in {0, -1} :
               /\ pc' = "cleanup"
               /\ run_exit' = [run_exit EXCEPT
                                 !.cause = IF bRet = 0 THEN "quit" ELSE "error"]
          /\ UNCHANGED <<running, stats, delivered, processed>>
       \/ /\ Len(processed) < limit
          /\ \E msg \in msgs :
               LET r == HandleRawInput(impl, stats, msg, callback)
               IN  /\ Record(msg, r)
                   /\ running' = IF msg.message = WM_CLOSE THEN FALSE ELSE running
                   /\ pc' = IF r.propagates THEN "cleanup" ELSE "loop"
                   /\ run_exit' = IF r.propagates
                                  THEN [run_exit EXCEPT !.cause = "exception"]
                                  ELSE run_exit
    /\ UNCHANGED <<impl, callback, hwnd, regEnv, regLog, regResult,
                   regCalls, osRegistered, windowAlive>>
    /\ UNCHANGED <<stopped_at, now, last_activity_time, reports>>
    /\ UNCHANGED trackerVars

\* One iteration of CompleteRawInputCapture.run_message_loop: GetMessageW
\* returns 0 for WM_QUIT, -1 on error, and otherwise the message goes to the
\* window procedure through DispatchMessageW.
Complete_GetMessage(msgs, limit) ==
    /\ impl = "CompleteRawInputCapture"
    /\ pc = "body"
    /\ \/ /\ \E bRet \in {0, -1} :
               /\ pc' = "cleanup"
               /\ run_exit' = [run_exit EXCEPT
                                 !.cause = IF bRet = 0 THEN "quit" ELSE "error"]
          /\ UNCHANGED <<running, stats, delivered, processed>>
       \/ /\ Len(processed) < limit
          /\ \E msg \in msgs :
               LET r == IF msg.message = WM_INPUT
                        THEN HandleRawInput(impl, stats, msg, callback)
                        ELSE Handled(stats, <<>>, "dispatched", FALSE)
               IN  /\ Record(msg, r)
                   /\ running' = IF msg.message = WM_CLOSE THEN FALSE ELSE running
                   /\ pc' = IF r.propagates THEN "cleanup" ELSE "loop"
                   /\ run_exit' = IF r.propagates
                                  THEN [run_exit EXCEPT !.cause = "exception"]
                                  ELSE run_exit
    /\ UNCHANGED <<impl, callback, hwnd, regEnv, regLog, regResult,
                   regCalls, osRegistered, windowAlive>>
    /\ UNCHANGED <<stopped_at, now, last_activity_time, reports>>
    /\ UNCHANGED trackerVars

\* ImprovedRawInputReader.process_raw_input(lParam), called on the instance
\* (run() defines wm_input_handler, which calls it, and installs it nowhere)
Improved_ProcessRawInput(msgs, limit) ==
    /\ impl = "ImprovedRawInputReader"
    /\ pc = "mainloop"
    /\ Len(processed) < limit
    /\ \E msg \in {m \in msgs : m.message = WM_INPUT} :
         Record(msg, HandleRawInput(impl, stats, msg, callback))
    /\ UNCHANGED <<impl, pc, running, callback, hwnd, regEnv, regLog, regResult,
                   regCalls, osRegistered, windowAlive>>
    /\ UNCHANGED loopVars
    /\ UNCHANGED trackerVars

\* ImprovedRawInputReader.stop: clears the flag, quits and destroys the Tk
\* root, which ends mainloop and with it run()
Improved_Stop ==
    /\ impl = "ImprovedRawInputReader"
    /\ pc = "mainloop"
    /\ running' = FALSE
    /\ windowAlive' = FALSE
    /\ pc' = "done"
    /\ run_exit' = [cause |-> "stop", returned |-> "None"]
    /\ UNCHANGED <<impl, callback, hwnd, stats, delivered, processed,
                   regEnv, regLog, regResult, regCalls, osRegistered>>
    /\ UNCHANGED <<stopped_at, now, last_activity_time, reports>>
    /\ UNCHANGED trackerVars

\* what run() returns: False where create_window failed, and otherwise
\* nothing (None), whatever ended the loop
ReturnOf(cause) == IF cause = "no_window" THEN "False" ELSE "None"

\* cleanup(), in run()'s finally: DestroyWindow if there is a handle; then
\* run() returns
Run_Cleanup ==
    /\ impl # "ImprovedRawInputReader"
    /\ pc = "cleanup"
    /\ windowAlive' = FALSE
    /\ pc' = "done"
    /\ run_exit' = [run_exit EXCEPT !.returned = ReturnOf(run_exit.cause)]
    /\ UNCHANGED <<impl, running, callback, hwnd, stats, delivered, processed,
                   regEnv, regLog, regResult, regCalls, osRegistered>>
    /\ UNCHANGED <<stopped_at, now, last_activity_time, reports>>
    /\ UNCHANGED trackerVars

-----------------------------------------------------------------------------
(* Operations of the consumer and of the channel *)

\* raw_input_callback(data), on the capture context: input_queue.put(data).
\* The queue is unbounded, so put never blocks; id is the identity of the
\* object put.
raw_input_callback(evs, limit) ==
    /\ callback
    /\ Len(pushed) < limit
    /\ \E ev \in evs :
         LET item == [id |-> Len(pushed) + 1, data |-> ev]
         IN  /\ input_queue' = Append(input_queue, item)
             /\ pushed' = Append(pushed, item)
    /\ UNCHANGED <<consumed, tpc, drain_data, tracker>>
    /\ UNCHANGED worker
    /\ UNCHANGED readerVars

\* animate(): the tick calls process_raw_input_data()
animate ==
    /\ tpc = "tick"
    /\ tpc' = "test"
    /\ UNCHANGED <<input_queue, pushed, consumed, drain_data, tracker>>
    /\ UNCHANGED worker
    /\ UNCHANGED readerVars

\* while not self.input_queue.empty():
process_raw_input_data_Test ==
    /\ tpc = "test"
    /\ tpc' = IF input_queue = <<>> THEN "tick" ELSE "get"
    /\ UNCHANGED <<input_queue, pushed, consumed, drain_data, tracker>>
    /\ UNCHANGED worker
    /\ UNCHANGED readerVars

\* get_nowait() of a queue.LifoQueue: the newest item
process_raw_input_data_Get_Lifo ==
    /\ tpc = "get"
    /\ IF input_queue = <<>>
       THEN /\ tpc' = "tick"
            /\ UNCHANGED <<input_queue, consumed, drain_data>>
       ELSE /\ drain_data' = input_queue[Len(input_queue)]
            /\ input_queue' = SubSeq(input_queue, 1, Len(input_queue) - 1)
            /\ consumed' = Append(consumed, input_queue[Len(input_queue)])
            /\ tpc' = "handle"
    /\ UNCHANGED <<pushed, tracker>>
    /\ UNCHANGED worker
    /\ UNCHANGED readerVars

\* a read of the oldest item that leaves it on the queue
process_raw_input_data_Get_Peek ==
    /\ tpc = "get"
    /\ IF input_queue = <<>>
       THEN /\ tpc' = "tick"
            /\ UNCHANGED <<input_queue, consumed, drain_data>>
       ELSE /\ drain_data' = Head(input_queue)
            /\ input_queue' = input_queue
            /\ consumed' = Append(consumed, Head(input_queue))
            /\ tpc' = "handle"
    /\ UNCHANGED <<pushed, tracker>>
    /\ UNCHANGED worker
    /\ UNCHANGED readerVars

\* data = self.input_queue.get_nowait(): the oldest item leaves the queue;
\* on an empty queue queue.Empty is raised, which ends the method
process_raw_input_data_Get ==
    /\ tpc = "get"
    /\ IF input_queue = <<>>
       THEN /\ tpc' = "tick"
            /\ UNCHANGED <<input_queue, consumed, drain_data>>
       ELSE /\ drain_data' = Head(input_queue)
            /\ input_queue' = Tail(input_queue)
            /\ consumed' = Append(consumed, Head(input_queue))
            /\ tpc' = "handle"
    /\ UNCHANGED <<pushed, tracker>>
    /\ UNCHANGED worker
    /\ UNCHANGED readerVars

\* the dispatch on data['type'] to the handler, then back to the loop test
process_raw_input_data_Handle ==
    /\ tpc = "handle"
    /\ \E point \in CursorPoints :
         tracker' = DispatchEvent(tracker, drain_data.data, point)
    /\ tpc' = "test"
    /\ UNCHANGED <<input_queue, pushed, consumed, drain_data>>
    /\ UNCHANGED worker
    /\ UNCHANGED readerVars

-----------------------------------------------------------------------------
(* Specifications *)

\* the readers at work
Next ==
    \/ SetCallback
    \/ Improved_Run_CreateWindow
    \/ Complete_Run_CreateWindow
    \/ Run_Register(SomeRegEnvs(impl))
    \/ Run_SetRunning
    \/ Run_LoopTest
    \/ Run_Iterate(SomeMsgs(impl), MaxMsgs)
    \/ Run_Interrupted
    \/ Complete_GetMessage(SomeMsgs(impl), MaxMsgs)
    \/ Improved_ProcessRawInput(SomeMsgs(impl), MaxMsgs)
    \/ Improved_Stop
    \/ Run_Cleanup

Spec == Init /\ [][Next]_vars

\* the registration methods under every answer of the OS
NextReg ==
    \/ Improved_Run_CreateWindow
    \/ Complete_Run_CreateWindow
    \/ Run_Register(AllRegEnvs(impl))

SpecReg == Init /\ [][NextReg]_vars

\* each class fed one wheel report, for every 16-bit usButtonData
InitWheel ==
    /\ Init
    /\ impl = "RawInputReader" => hwnd = 1

NextWheel ==
    \/ SetCallback
    \/ Improved_Run_CreateWindow
    \/ Complete_Run_CreateWindow
    \/ Run_Register({AllOf(IF impl = "RawInputReader" THEN 5 ELSE 2, "ok")})
    \/ Run_SetRunning
    \/ Run_LoopTest
    \/ Run_Iterate(WheelMsgs, 1)
    \/ Complete_GetMessage(WheelMsgs, 1)
    \/ Improved_ProcessRawInput(WheelMsgs, 1)

SpecWheel == InitWheel /\ [][NextWheel]_vars

\* each class fed one pointer report, for every 16-bit usButtonFlags
NextButtons ==
    \/ SetCallback
    \/ Improved_Run_CreateWindow
    \/ Complete_Run_CreateWindow
    \/ Run_Register({AllOf(IF impl = "RawInputReader" THEN 5 ELSE 2, "ok")})
    \/ Run_SetRunning
    \/ Run_LoopTest
    \/ Run_Iterate(ButtonMsgs, 1)
    \/ Complete_GetMessage(ButtonMsgs, 1)
    \/ Improved_ProcessRawInput(ButtonMsgs, 1)

SpecButtons == InitWheel /\ [][NextButtons]_vars

\* the capture context putting events while the consumer drains
InitChannel ==
    /\ Init
    /\ impl = "RawInputReader"
    /\ hwnd = 1

NextChannel ==
    \/ SetCallback
    \/ raw_input_callback(ChannelEvents, MaxPushed)
    \/ animate
    \/ process_raw_input_data_Test
    \/ process_raw_input_data_Get
    \/ process_raw_input_data_Handle

SpecChannel == InitChannel /\ [][NextChannel]_vars

\* each class fed one keyboard report, for every 16-bit Flags
NextKeys ==
    \/ SetCallback
    \/ Improved_Run_CreateWindow
    \/ Complete_Run_CreateWindow
    \/ Run_Register({AllOf(IF impl = "RawInputReader" THEN 5 ELSE 2, "ok")})
    \/ Run_SetRunning
    \/ Run_LoopTest
    \/ Run_Iterate(KeyFlagMsgs, 1)
    \/ Complete_GetMessage(KeyFlagMsgs, 1)
    \/ Improved_ProcessRawInput(KeyFlagMsgs, 1)

SpecKeys == InitWheel /\ [][NextKeys]_vars

\* each class fed a sequence of pointer reports
NextMove ==
    \/ SetCallback
    \/ Improved_Run_CreateWindow
    \/ Complete_Run_CreateWindow
    \/ Run_Register({AllOf(IF impl = "RawInputReader" THEN 5 ELSE 2, "ok")})
    \/ Run_SetRunning
    \/ Run_LoopTest
    \/ Run_Iterate(MoveMsgs, MaxMoves)
    \/ Complete_GetMessage(MoveMsgs, MaxMoves)
    \/ Improved_ProcessRawInput(MoveMsgs, MaxMoves)

SpecMove == InitWheel /\ [][NextMove]_vars

-----------------------------------------------------------------------------
(* Vocabulary of the properties *)

\* a step that handled one more retrieved message, and that message's entry
HandledStep == Len(processed') = Len(processed) + 1

NewEntry == processed'[Len(processed')]

\* the outcomes in which a raw report produced no complete decode
Failures == {"empty", "mismatch", "unknown", "exception"}

\* the type-specific counters: cumulative X/Y, clicks, wheel sum, key presses,
\* HID packets
TypeCounters(st) ==
    <<st.total_mouse_x, st.total_mouse_y, st.mouse_clicks, st.mouse_wheel_delta,
      st.key_presses, st.hid_data_count>>

\* the two's-complement reading of a 16-bit value
Signed16(v) == IF v < 32768 THEN v ELSE v - 65536

\* the wheel delta an event carries: RawInputReader and ImprovedRawInputReader
\* emit mouse_wheel events, CompleteRawInputCapture a mouse_button event of
\* button "wheel" with the delta in data
IsWheelEvent(e) ==
    \/ e.type = "mouse_wheel"
    \/ e.type = "mouse_button" /\ "data" \in DOMAIN e /\ e.button = "wheel"

WheelDeltaOf(e) == IF e.type = "mouse_wheel" THEN e.delta ELSE e.data

UsagesOf(call) == {call.usUsage[j] : j \in DOMAIN call.usUsage}

-----------------------------------------------------------------------------
(* C1 - C10 *)

\* C1: RawInputReader.register_devices tries rungs 1..5 in that order and
\* makes no call after the first successful one; when rung 1 fails and rung 2
\* succeeds, exactly two calls were made and the result is true.
C1_LadderStopsAtFirstSuccess ==
    (impl = "RawInputReader" /\ regResult # "none") =>
        /\ Len(regLog) \in 1..5
        /\ \A i \in DOMAIN regLog :
             /\ regLog[i].rung = i
             /\ regLog[i].dwFlags = Rungs(hwnd)[i].dwFlags
             /\ regLog[i].hwndTarget = Rungs(hwnd)[i].hwndTarget
             /\ regLog[i].outcome = regEnv[i]
             /\ regLog[i].outcome = "ok" => i = Len(regLog)
        /\ (regEnv[1] # "ok" /\ regEnv[2] = "ok") =>
             (Len(regLog) = 2 /\ regResult = "true")

C1_Witness ==
    /\ impl = "RawInputReader"
    /\ regEnv = <<"fail", "ok", "ok", "ok", "ok">>
    /\ Len(regLog) = 2
    /\ regLog[1].dwFlags = RIDEV_INPUTSINK /\ regLog[1].outcome = "fail"
    /\ regLog[2].dwFlags = RIDEV_NOLEGACY /\ regLog[2].outcome = "ok"
    /\ regResult = "true"

\* C2: register_devices returns true iff some rung's call succeeds and false
\* exactly when all five fail; a rung that raises counts as failed and the
\* ladder goes on to the next rung.
C2_TrueIffSomeRungSucceeds ==
    (impl = "RawInputReader" /\ regResult # "none") =>
        /\ regResult \in {"true", "false"}
        /\ regResult = "true" <=> (\E r \in 1..5 : regEnv[r] = "ok")
        /\ regResult = "true" <=> (\E i \in DOMAIN regLog : regLog[i].outcome = "ok")
        /\ regResult = "false" <=>
             (Len(regLog) = 5 /\ \A i \in 1..5 : regLog[i].outcome # "ok")
        /\ \A i \in DOMAIN regLog :
             regLog[i].outcome = "raise" /\ i < 5 => Len(regLog) > i

C2_Witness ==
    /\ impl = "RawInputReader"
    /\ regResult # "none"
    /\ regEnv[1] = "raise"
    /\ regEnv[2] = "fail"
    /\ regEnv[3] = "ok"
    /\ Len(regLog) = 3
    /\ regResult = "true"

\* C3: rungs 1, 2 and 3 each request pointer and keyboard together in one
\* registration call; rungs 4 and 5 request the pointer alone.
C3_FirstRungsRequestAllClasses ==
    impl = "RawInputReader" =>
        \A i \in DOMAIN regLog :
            UsagesOf(regLog[i]) =
                IF regLog[i].rung <= 3 THEN {USAGE_MOUSE, USAGE_KEYBOARD}
                ELSE {USAGE_MOUSE}

\* C4 as stated: a registration covering pointer and keyboard reports success
\* only if both classes were registered, and reports failure whenever the
\* keyboard registration fails.
C4_AllOrNothing ==
    (impl \in {"ImprovedRawInputReader", "CompleteRawInputCapture"}
     /\ regResult # "none") =>
        /\ regResult = "true" => osRegistered = {USAGE_MOUSE, USAGE_KEYBOARD}
        /\ regEnv[2] # "ok" => regResult # "true"

\* C4 as amended: CompleteRawInputCapture.register_raw_input is
\* all-or-nothing (one call for both devices: true iff the OS accepted both,
\* and otherwise nothing is registered); ImprovedRawInputReader.
\* register_devices returns true iff the pointer call succeeded and the
\* keyboard call did not raise, also when the keyboard call returned failure.
C4_AllOrNothingInCompleteOnly ==
    /\ (impl = "CompleteRawInputCapture" /\ regResult # "none") =>
          /\ Len(regLog) = 1
          /\ UsagesOf(regLog[1]) = {USAGE_MOUSE, USAGE_KEYBOARD}
          /\ regResult = "true" <=> (regEnv[1] = "ok" /\ regEnv[2] = "ok")
          /\ regResult = "true" => osRegistered = {USAGE_MOUSE, USAGE_KEYBOARD}
          /\ regResult # "true" => osRegistered = {}
    /\ (impl = "ImprovedRawInputReader" /\ regResult # "none") =>
          /\ regResult = "true" <=> (regEnv[1] = "ok" /\ regEnv[2] # "raise")
          /\ regResult = "true" => USAGE_MOUSE \in osRegistered
          /\ USAGE_KEYBOARD \in osRegistered <=>
                (regEnv[1] = "ok" /\ regEnv[2] = "ok")

C4_Witness ==
    /\ impl = "CompleteRawInputCapture"
    /\ regEnv = <<"ok", "fail">>
    /\ regResult = "false"
    /\ osRegistered = {}

\* C5: run() calls the registration method once and then goes on to the
\* loop, when it returned true and when it returned false alike.
C5_RunningAfterRegistration ==
    [][ /\ regCalls' # regCalls =>
              /\ regCalls' = 1
              /\ regResult' \in {"true", "false"} =>
                    pc' \in {"registered", "mainloop"}
        /\ (pc = "registered" /\ pc' # pc) => (pc' = "loop" /\ running')
      ]_vars

C5_Witness ==
    /\ impl = "RawInputReader"
    /\ regResult = "false"
    /\ regCalls = 1
    /\ pc = "body"
    /\ running

\* C6: a report whose fetch writes a byte count different from the queried
\* size is dropped: nothing is handed to the callback and no type-specific
\* counter changes.
C6_SizeMismatchDropped ==
    [][ (/\ HandledStep
         /\ NewEntry.msg.message = WM_INPUT
         /\ NewEntry.msg.fetched # NewEntry.msg.size) =>
            /\ delivered' = delivered
            /\ TypeCounters(stats') = TypeCounters(stats)
      ]_vars

C6_Witness ==
    /\ impl = "RawInputReader"
    /\ callback
    /\ Len(processed) = 1
    /\ processed[1].outcome = "mismatch"
    /\ processed[1].msg.size = SIZE_RAWINPUT
    /\ processed[1].msg.fetched = FETCH_ERROR
    /\ processed[1].msg.lLastX = 5
    /\ delivered = <<>>
    /\ TypeCounters(stats) = TypeCounters(InitStats)

\* C7: a raw-input message dropped for a size mismatch still increments
\* raw_input_messages by one.
C7_MismatchStillCounted ==
    [][ (/\ impl = "RawInputReader"
         /\ HandledStep
         /\ NewEntry.msg.message = WM_INPUT
         /\ NewEntry.msg.raise = "none"
         /\ NewEntry.msg.size # 0
         /\ NewEntry.msg.fetched # NewEntry.msg.size) =>
            stats'.raw_input_messages = stats.raw_input_messages + 1
      ]_vars

\* C8: no decode failure ends the loop: after a raw-input message whose
\* decode failed (size 0, size mismatch, unknown type, exception) control is
\* back at the top of the loop with the running flag and the window as they
\* were.
C8_DecodeFailureKeepsLoop ==
    [][ (/\ impl \in {"RawInputReader", "CompleteRawInputCapture"}
         /\ HandledStep
         /\ NewEntry.outcome \in Failures) =>
            /\ pc' = "loop"
            /\ running' = running
            /\ windowAlive' = windowAlive
      ]_vars

C8_Witness ==
    /\ impl = "RawInputReader"
    /\ callback
    /\ running
    /\ pc = "loop"
    /\ Len(processed) = 2
    /\ processed[1].outcome = "exception"
    /\ processed[1].msg.raise = "decode"
    /\ processed[2].outcome = "ok"
    /\ Len(delivered) = 2

\* C9: the wheel delta emitted for a wheel report is the two's-complement
\* reading of its 16-bit usButtonData; 65416 decodes to -120.
C9_WheelDeltaSigned ==
    (Len(processed) = 1 /\ callback) =>
        /\ Len(delivered) = 1
        /\ IsWheelEvent(delivered[1])
        /\ WheelDeltaOf(delivered[1]) = Signed16(processed[1].msg.usButtonData)
        /\ processed[1].msg.usButtonData = 65416 =>
              WheelDeltaOf(delivered[1]) = -120
        /\ impl # "CompleteRawInputCapture" =>
              stats.mouse_wheel_delta = Signed16(processed[1].msg.usButtonData)

C9_Witness ==
    /\ impl = "RawInputReader"
    /\ Len(processed) = 1
    /\ processed[1].msg.usButtonData = 65416
    /\ Len(delivered) = 1
    /\ delivered[1].type = "mouse_wheel"
    /\ delivered[1].delta = -120

\* C10: the click count goes up by one for a pointer report whose
\* usButtonFlags is non-zero and not the wheel bit, and stays as it is for a
\* report whose usButtonFlags is only the wheel bit.
C10_ClicksCountButtonsOnly ==
    [][ (/\ impl = "RawInputReader"
         /\ HandledStep
         /\ NewEntry.outcome = "ok"
         /\ NewEntry.msg.message = WM_INPUT
         /\ NewEntry.msg.dwType = RIM_TYPEMOUSE) =>
            stats'.mouse_clicks =
                IF NewEntry.msg.usButtonFlags \in {0, RI_MOUSE_WHEEL}
                THEN stats.mouse_clicks
                ELSE stats.mouse_clicks + 1
      ]_vars

-----------------------------------------------------------------------------
(* C11 - C20 *)

\* bit b (a power of two) of v is set
Bit(v, b) == (v \div b) % 2 = 1

\* the six button bits in the stated priority, with the transition each names
ButtonPriority ==
    << <<RI_MOUSE_LEFT_BUTTON_DOWN, "Left", "Down">>,
       <<RI_MOUSE_LEFT_BUTTON_UP, "Left", "Up">>,
       <<RI_MOUSE_RIGHT_BUTTON_DOWN, "Right", "Down">>,
       <<RI_MOUSE_RIGHT_BUTTON_UP, "Right", "Up">>,
       <<RI_MOUSE_MIDDLE_BUTTON_DOWN, "Middle", "Down">>,
       <<RI_MOUSE_MIDDLE_BUTTON_UP, "Middle", "Up">> >>

SetButtonBits(bf) == {i \in 1..6 : Bit(bf, ButtonPriority[i][1])}

FirstSetButton(bf) ==
    LET i == CHOOSE k \in SetButtonBits(bf) : \A j \in SetButtonBits(bf) : k <= j
    IN  <<ButtonPriority[i][2], ButtonPriority[i][3]>>

\* button and state names without regard to letter case
Canon(s) ==
    CASE s \in {"Left", "left"} -> "Left"
      [] s \in {"Right", "right"} -> "Right"
      [] s \in {"Middle", "middle"} -> "Middle"
      [] s \in {"Down", "down"} -> "Down"
      [] s \in {"Up", "up"} -> "Up"
      [] s \in {"Unknown", "unknown"} -> "Unknown"
      [] OTHER -> s

\* a MouseButton event (CompleteRawInputCapture's wheel event has the same
\* type and is none)
IsButtonEvent(e) == e.type = "mouse_button" /\ e.button # "wheel"

ButtonNameOf(e) == Canon(e.button)

ButtonStateOf(e) ==
    IF "state" \in DOMAIN e THEN Canon(e.state) ELSE Canon(e.action)

ButtonEventsOf(evs) == SelectSeq(evs, IsButtonEvent)

\* C11: for every usButtonFlags with several of the six button bits set, the
\* report yields exactly one MouseButton event, and it names the set bit that
\* comes first in the order Left-Down, Left-Up, Right-Down, Right-Up,
\* Middle-Down, Middle-Up.
C11_ButtonPriority ==
    (/\ impl \in {"RawInputReader", "CompleteRawInputCapture"}
     /\ callback
     /\ Len(processed) = 1
     /\ Cardinality(SetButtonBits(processed[1].msg.usButtonFlags)) >= 2) =>
        LET b == ButtonEventsOf(delivered)
        IN  /\ Len(b) = 1
            /\ <<ButtonNameOf(b[1]), ButtonStateOf(b[1])>> =
                  FirstSetButton(processed[1].msg.usButtonFlags)

\* C12 as stated: every MouseButton event of a report whose usButtonFlags is
\* non-zero and has the wheel bit clear has its button in {Left, Right,
\* Middle} and its state in {Down, Up}, for every 16-bit usButtonFlags.
C12_ButtonInSixValues ==
    (/\ callback
     /\ Len(processed) = 1
     /\ processed[1].msg.usButtonFlags # 0
     /\ ~Bit(processed[1].msg.usButtonFlags, RI_MOUSE_WHEEL)) =>
        \A i \in DOMAIN delivered :
            IsButtonEvent(delivered[i]) =>
                /\ ButtonNameOf(delivered[i]) \in {"Left", "Right", "Middle"}
                /\ ButtonStateOf(delivered[i]) \in {"Down", "Up"}

\* C12 as amended: a report whose usButtonFlags is non-zero and has the wheel
\* bit clear yields one MouseButton event; its button is in {Left, Right,
\* Middle} and its state in {Down, Up} exactly when one of the six button
\* bits is set, and otherwise both are Unknown.
C12_ButtonInSixValuesOrUnknown ==
    (/\ callback
     /\ Len(processed) = 1
     /\ processed[1].msg.usButtonFlags # 0
     /\ ~Bit(processed[1].msg.usButtonFlags, RI_MOUSE_WHEEL)) =>
        LET bf == processed[1].msg.usButtonFlags
            b  == ButtonEventsOf(delivered)
        IN  /\ Len(b) = 1
            /\ Len(delivered) = 1
            /\ IF SetButtonBits(bf) # {}
               THEN /\ ButtonNameOf(b[1]) \in {"Left", "Right", "Middle"}
                    /\ ButtonStateOf(b[1]) \in {"Down", "Up"}
               ELSE /\ ButtonNameOf(b[1]) = "Unknown"
                    /\ ButtonStateOf(b[1]) = "Unknown"

C12_Witness ==
    /\ impl = "RawInputReader"
    /\ callback
    /\ Len(processed) = 1
    /\ processed[1].msg.usButtonFlags = 64
    /\ Len(delivered) = 1
    /\ delivered[1].type = "mouse_button"
    /\ delivered[1].button = "Unknown"
    /\ delivered[1].state = "Unknown"

\* a retrieved message that was decoded as a pointer report (also when the
\* callback then raised)
IsPointerReport(p) ==
    /\ p.msg.message = WM_INPUT
    /\ p.msg.dwType = RIM_TYPEMOUSE
    /\ \/ p.outcome = "ok"
       \/ p.outcome = "exception" /\ p.msg.raise \in {"cb1", "cb2"}

RECURSIVE SumX(_)
SumX(n) ==
    IF n = 0 THEN 0
    ELSE SumX(n - 1) + (IF IsPointerReport(processed[n])
                        THEN processed[n].msg.lLastX ELSE 0)

RECURSIVE SumY(_)
SumY(n) ==
    IF n = 0 THEN 0
    ELSE SumY(n - 1) + (IF IsPointerReport(processed[n])
                        THEN processed[n].msg.lLastY ELSE 0)

\* what the MouseMove events of the first n messages have to carry:
\* <<deltaX, deltaY, totalX, totalY>> per report with a non-zero delta
RECURSIVE ExpectedMoves(_)
ExpectedMoves(n) ==
    IF n = 0 THEN <<>>
    ELSE LET m == processed[n].msg
         IN  IF IsPointerReport(processed[n]) /\ (m.lLastX # 0 \/ m.lLastY # 0)
             THEN Append(ExpectedMoves(n - 1),
                         <<m.lLastX, m.lLastY, SumX(n), SumY(n)>>)
             ELSE ExpectedMoves(n - 1)

IsMoveEvent(e) == e.type = "mouse_move"

RECURSIVE MovesOf(_)
MovesOf(evs) ==
    IF evs = <<>> THEN <<>>
    ELSE LET e == Head(evs)
         IN  (IF IsMoveEvent(e)
              THEN << <<e.delta_x, e.delta_y, e.total_x, e.total_y>> >>
              ELSE <<>>) \o MovesOf(Tail(evs))

DeltasOf(ps) == [i \in DOMAIN ps |-> <<ps[i].msg.lLastX, ps[i].msg.lLastY>>]

\* C13: the cumulative totals are the component-wise sums of the deltas of
\* the pointer reports so far, each MouseMove event carries the sums up to
\* and including its report, and the reports (5,0), (0,5), (-5,-5) leave the
\* totals at (0,0) with three MouseMove events in report order.
C13_TotalsAreSums ==
    /\ stats.total_mouse_x = SumX(Len(processed))
    /\ stats.total_mouse_y = SumY(Len(processed))
    /\ callback => MovesOf(delivered) = ExpectedMoves(Len(processed))
    /\ (/\ Len(processed) = 3
        /\ \A i \in 1..3 : IsPointerReport(processed[i])
        /\ DeltasOf(processed) = << <<5, 0>>, <<0, 5>>, <<-5, -5>> >>) =>
          /\ stats.total_mouse_x = 0 /\ stats.total_mouse_y = 0
          /\ callback => MovesOf(delivered) =
                << <<5, 0, 5, 0>>, <<0, 5, 5, 5>>, <<-5, -5, 0, 0>> >>

C13_Witness ==
    /\ impl = "RawInputReader"
    /\ callback
    /\ Len(processed) = 3
    /\ \A i \in 1..3 : IsPointerReport(processed[i])
    /\ DeltasOf(processed) = << <<5, 0>>, <<0, 5>>, <<-5, -5>> >>
    /\ stats.total_mouse_x = 0 /\ stats.total_mouse_y = 0
    /\ Len(delivered) = 3
    /\ delivered[2].total_x = 5 /\ delivered[2].total_y = 5
    /\ delivered[3].total_x = 0 /\ delivered[3].total_y = 0

\* a decoded pointer report whose usButtonFlags has the wheel bit set
IsWheelReport(p) ==
    IsPointerReport(p) /\ Bit(p.msg.usButtonFlags, RI_MOUSE_WHEEL)

RECURSIVE WheelSum(_)
WheelSum(n) ==
    IF n = 0 THEN 0
    ELSE WheelSum(n - 1) + (IF IsWheelReport(processed[n])
                            THEN Signed16(processed[n].msg.usButtonData) ELSE 0)

\* the totalDelta each MouseWheel event of the first n messages has to carry
RECURSIVE ExpectedWheelTotals(_)
ExpectedWheelTotals(n) ==
    IF n = 0 THEN <<>>
    ELSE IF IsWheelReport(processed[n])
         THEN Append(ExpectedWheelTotals(n - 1), WheelSum(n))
         ELSE ExpectedWheelTotals(n - 1)

RECURSIVE WheelTotalsOf(_)
WheelTotalsOf(evs) ==
    IF evs = <<>> THEN <<>>
    ELSE (IF Head(evs).type = "mouse_wheel"
          THEN <<Head(evs).total_delta>> ELSE <<>>) \o WheelTotalsOf(Tail(evs))

\* C14: the wheel running total is the sum of the signed deltas of the wheel
\* reports so far, and each MouseWheel event carries the sum up to and
\* including its report.
C14_WheelTotalIsSum ==
    impl \in {"RawInputReader", "ImprovedRawInputReader"} =>
        /\ stats.mouse_wheel_delta = WheelSum(Len(processed))
        /\ callback =>
              WheelTotalsOf(delivered) = ExpectedWheelTotals(Len(processed))

\* a retrieved message that was decoded as a keyboard report
IsKeyReport(p) ==
    /\ p.msg.message = WM_INPUT
    /\ p.msg.dwType = RIM_TYPEKEYBOARD
    /\ \/ p.outcome = "ok"
       \/ p.outcome = "exception" /\ p.msg.raise \in {"cb1", "cb2"}

KeyReportsIn(ps) == {i \in DOMAIN ps : IsKeyReport(ps[i])}

RECURSIVE KeyCountsOf(_)
KeyCountsOf(evs) ==
    IF evs = <<>> THEN <<>>
    ELSE (IF Head(evs).type = "keyboard"
          THEN <<Head(evs).key_count>> ELSE <<>>) \o KeyCountsOf(Tail(evs))

\* C15: key_presses is the number of keyboard reports processed, key-down
\* and key-up alike, and the key_count of the k-th KeyEvent is k.
C15_KeyCountPerReport ==
    /\ stats.key_presses = Cardinality(KeyReportsIn(processed))
    /\ callback =>
          KeyCountsOf(delivered) =
              [k \in 1..Cardinality(KeyReportsIn(processed)) |-> k]

C15_Witness ==
    /\ callback
    /\ Len(processed) = 2
    /\ IsKeyReport(processed[1]) /\ processed[1].msg.Flags = 0
    /\ IsKeyReport(processed[2]) /\ processed[2].msg.Flags = 1
    /\ stats.key_presses = 2
    /\ Len(delivered) = 2
    /\ delivered[1].key_count = 1
    /\ delivered[2].key_count = 2
    /\ delivered[2].state \in {"up", "Up"}

\* C16: for every Flags value the key state of the KeyEvent is pressed/down
\* exactly when bit 0 of Flags is clear and released/up exactly when it is
\* set, whatever the other bits are.
C16_KeyStateFromBitZero ==
    (callback /\ Len(processed) = 1) =>
        /\ Len(delivered) = 1
        /\ delivered[1].type = "keyboard"
        /\ Canon(delivered[1].state) \in {"Down", "Up"}
        /\ Canon(delivered[1].state) = "Down" <=> processed[1].msg.Flags % 2 = 0
        /\ Canon(delivered[1].state) = "Up" <=> processed[1].msg.Flags % 2 = 1

C16_Witness ==
    /\ impl = "ImprovedRawInputReader"
    /\ callback
    /\ Len(processed) = 1
    /\ processed[1].msg.Flags = 2
    /\ Len(delivered) = 1
    /\ delivered[1].state = "Down"

\* a retrieved message whose report was fetched whole and has the generic-HID
\* discriminant
IsHidReport(p) ==
    /\ p.msg.message = WM_INPUT
    /\ p.msg.dwType = RIM_TYPEHID
    /\ p.msg.size # 0
    /\ p.msg.fetched = p.msg.size
    /\ p.msg.raise = "none"

HidReportsIn(ps) == {i \in DOMAIN ps : IsHidReport(ps[i])}

IsHidEvent(e) == e.type = "hid"

\* C17: the raw_bytes of every HidEvent has length
\* min(dwSizeHid * dwCount, 64); a report with dwSizeHid * dwCount = 200
\* yields 64 bytes.
C17_HidBytesCapped ==
    \A i \in DOMAIN delivered :
        IsHidEvent(delivered[i]) =>
            /\ Len(delivered[i].raw_bytes) =
                  Min(delivered[i].size * delivered[i].count, HID_CAP)
            /\ delivered[i].size * delivered[i].count = 200 =>
                  Len(delivered[i].raw_bytes) = 64

RECURSIVE HidCountsOf(_)
HidCountsOf(evs) ==
    IF evs = <<>> THEN <<>>
    ELSE (IF IsHidEvent(Head(evs))
          THEN <<Head(evs).data_count>> ELSE <<>>) \o HidCountsOf(Tail(evs))

\* C18: every report with the generic-HID discriminant, whatever its
\* dwSizeHid * dwCount, adds one to hid_data_count and yields exactly one
\* HidEvent carrying that count.
C18_OversizedHidDelivered ==
    impl \in {"RawInputReader", "ImprovedRawInputReader"} =>
        /\ stats.hid_data_count = Cardinality(HidReportsIn(processed))
        /\ callback =>
              HidCountsOf(delivered) =
                  [k \in 1..Cardinality(HidReportsIn(processed)) |-> k]

IsPrefix(a, b) ==
    /\ Len(a) <= Len(b)
    /\ \A i \in DOMAIN a : a[i] = b[i]

\* how often the item put k-th occurs in a sequence of items
Occurrences(k, items) == Cardinality({i \in DOMAIN items : items[i].id = k})

\* C19: the consumer gets the events in exactly the order in which the
\* capture context put them, within one drain and across drains: what
\* get_nowait has returned so far is always the first part of what was put.
C19_ChannelFifo ==
    /\ IsPrefix(consumed, pushed)
    /\ tpc = "handle" => drain_data = consumed[Len(consumed)]

C19_Witness ==
    /\ Len(pushed) = 3
    /\ Len(consumed) = 2
    /\ Len(input_queue) = 1
    /\ consumed[1].data.type = "mouse_move"
    /\ consumed[2].data.type = "mouse_button"
    /\ input_queue[1].data.type = "mouse_wheel"
    /\ tpc = "tick"

\* C20: no event is lost or duplicated: every item put is either still on
\* the queue or was returned by get_nowait, never both and never twice, and
\* when the drain sees the queue empty every item put so far has been
\* returned to the consumer exactly once.
C20_ChannelExactlyOnce ==
    [][ /\ \A k \in 1..Len(pushed') :
             Occurrences(k, consumed') + Occurrences(k, input_queue') = 1
        /\ Len(consumed') + Len(input_queue') = Len(pushed')
        /\ (tpc = "test" /\ tpc' = "tick") =>
              \A k \in 1..Len(pushed') : Occurrences(k, consumed') = 1
      ]_vars

C20_Witness ==
    /\ Len(pushed) = 3
    /\ Len(consumed) = 3
    /\ input_queue = <<>>
    /\ tpc = "tick"
    /\ tracker.total_mouse_movements = 1
    /\ tracker.click_count = 1
    /\ tracker.wheel_delta = -120

-----------------------------------------------------------------------------
(* The drain of the input queue followed forever *)

\* items input_queue holds at once where the runs are followed forever
MaxQueued == 2

\* events whose handlers leave the tracker's fields as they are: a keyboard
\* event, a button release and a HID event
QuietEvents ==
    { process_keyboard_data("RawInputReader", InitStats,
                            KeyMsg(65, 30, 0), TRUE, 0).ev[1],
      ButtonEvent(InitStats, RI_MOUSE_LEFT_BUTTON_UP),
      [type |-> "hid", device_handle |-> 1, size |-> 1, count |-> 1,
       raw_bytes |-> <<127>>, data_count |-> 1] }

\* raw_input_callback(data) with the history of puts left alone: put never
\* blocks and nothing limits how often the capture context calls it; cap
\* bounds the items queued at once
raw_input_callback_Put(evs, cap) ==
    /\ callback
    /\ Len(input_queue) < cap
    /\ \E ev \in evs :
         input_queue' = Append(input_queue, [id |-> 0, data |-> ev])
    /\ UNCHANGED <<pushed, consumed, tpc, drain_data, tracker>>
    /\ UNCHANGED worker
    /\ UNCHANGED readerVars

\* data = self.input_queue.get_nowait() with the history of gets left alone
process_raw_input_data_GetNowait ==
    /\ tpc = "get"
    /\ IF input_queue = <<>>
       THEN /\ tpc' = "tick"
            /\ UNCHANGED <<input_queue, drain_data>>
       ELSE /\ drain_data' = Head(input_queue)
            /\ input_queue' = Tail(input_queue)
            /\ tpc' = "handle"
    /\ UNCHANGED <<pushed, consumed, tracker>>
    /\ UNCHANGED worker
    /\ UNCHANGED readerVars

NextChannelLive ==
    \/ SetCallback
    \/ raw_input_callback_Put(QuietEvents, MaxQueued)
    \/ animate
    \/ process_raw_input_data_Test
    \/ process_raw_input_data_GetNowait
    \/ process_raw_input_data_Handle

\* The consumer is a running thread: a step of the drain that can be taken is
\* taken.  Nothing is assumed of the capture context or of the next tick.
SpecChannelLive ==
    /\ InitChannel
    /\ [][NextChannelLive]_vars
    /\ WF_vars(process_raw_input_data_Test)
    /\ WF_vars(process_raw_input_data_GetNowait)
    /\ WF_vars(process_raw_input_data_Handle)

\* C21: each call of process_raw_input_data terminates and lets the tick
\* proceed, whatever the capture context puts on the queue meanwhile: a drain
\* that has begun (the loop test is reached) comes back to the tick.
C21_DrainTerminates == (tpc = "test") ~> (tpc = "tick")

-----------------------------------------------------------------------------
(* The worker thread of AdvancedMouseTracker *)

\* the methods class RawInputReader defines
RawInputReaderMethods ==
    {"__init__", "set_callback", "create_message_window", "register_devices",
     "process_raw_input", "process_mouse_data", "process_keyboard_data",
     "process_hid_data", "run", "stop", "cleanup"}

\* start_raw_input(): the daemon thread of raw_input_worker is started
start_raw_input ==
    /\ worker = "none"
    /\ worker' = "set_callback"
    /\ UNCHANGED <<input_queue, pushed, consumed, tpc, drain_data, tracker>>
    /\ UNCHANGED readerVars

\* raw_input_worker: self.raw_input_reader.set_callback(raw_input_callback)
raw_input_worker_SetCallback ==
    /\ worker = "set_callback"
    /\ callback' = TRUE
    /\ worker' = "register"
    /\ UNCHANGED <<impl, pc, running, hwnd, stats, delivered, processed,
                   regEnv, regLog, regResult, regCalls, osRegistered, windowAlive>>
    /\ UNCHANGED loopVars
    /\ UNCHANGED <<input_queue, pushed, consumed, tpc, drain_data, tracker>>

\* raw_input_worker: self.raw_input_reader.register_devices(), its result
\* not looked at
raw_input_worker_Register(envs) ==
    /\ worker = "register"
    /\ \E env \in envs :
         LET res == register_devices(hwnd, env)
         IN  /\ regEnv' = env
             /\ regLog' = res.log
             /\ regResult' = ResultName(res)
             /\ osRegistered' = osRegistered \cup RegisteredBy(res.log)
    /\ regCalls' = regCalls + 1
    /\ worker' = "start_message_loop"
    /\ UNCHANGED <<impl, pc, running, callback, hwnd, stats, delivered,
                   processed, windowAlive>>
    /\ UNCHANGED loopVars
    /\ UNCHANGED <<input_queue, pushed, consumed, tpc, drain_data, tracker>>

\* raw_input_worker: self.raw_input_reader.start_message_loop().  The
\* attribute is looked up on the RawInputReader; where the class has no such
\* method AttributeError is raised, the except clause of the worker prints
\* it and the thread ends.
raw_input_worker_StartMessageLoop ==
    /\ worker = "start_message_loop"
    /\ worker' = IF "start_message_loop" \in RawInputReaderMethods
                 THEN "capture_loop"
                 ELSE "ended"
    /\ UNCHANGED <<input_queue, pushed, consumed, tpc, drain_data, tracker>>
    /\ UNCHANGED readerVars

\* stop_and_quit(): self.raw_input_reader.stop(), then self.root.quit(),
\* which ends the Tk main loop and with it the ticks
stop_and_quit ==
    /\ tpc = "tick"
    /\ running' = FALSE
    /\ stopped_at' = Len(processed)
    /\ tpc' = "quit"
    /\ UNCHANGED <<impl, pc, callback, hwnd, stats, delivered, processed,
                   regEnv, regLog, regResult, regCalls, osRegistered, windowAlive>>
    /\ UNCHANGED <<run_exit, now, last_activity_time, reports>>
    /\ UNCHANGED <<input_queue, pushed, consumed, drain_data, tracker, worker>>

\* the tracker from its construction on: the worker thread, the ticks of the
\* consumer and the request to quit
NextWorker ==
    \/ start_raw_input
    \/ raw_input_worker_SetCallback
    \/ raw_input_worker_Register(AllRegEnvs("RawInputReader"))
    \/ raw_input_worker_StartMessageLoop
    \/ animate
    \/ process_raw_input_data_Test
    \/ stop_and_quit

SpecWorker == InitChannel /\ [][NextWorker]_vars

\* C22: after start_raw_input the worker sets the callback, registers and
\* then runs the capture loop until a stop is requested: the worker thread
\* has not ended unless stop() has been called.
C22_WorkerRunsUntilStop == (worker = "ended") => (stopped_at >= 0)

-----------------------------------------------------------------------------
(* Stopping the loop and leaving run() *)

\* the messages the loop may retrieve while it is being stopped: a pointer
\* report, one whose callback raises, a message of another kind, and the
\* close request of CompleteRawInputCapture's window
StopMsgs(cls) ==
    { MouseMsg(5, 0, 0, 0),
      [MouseMsg(5, 0, RI_MOUSE_LEFT_BUTTON_DOWN, 0) EXCEPT !.raise = "cb1"] }
    \cup OtherMsgs
    \cup (IF cls = "CompleteRawInputCapture"
          THEN { [BaseMsg EXCEPT !.message = WM_CLOSE] } ELSE {})

\* the two classes whose run() holds the message loop
InitStop ==
    /\ Init
    /\ impl # "ImprovedRawInputReader"

\* run() from its call to its return, with stop() called from another thread
\* at any moment and KeyboardInterrupt raised at any moment of the loop
NextStop ==
    \/ SetCallback
    \/ Stop
    \/ Complete_Run_CreateWindow
    \/ Run_Register(SomeRegEnvs(impl))
    \/ Run_SetRunning
    \/ Run_LoopTest
    \/ Run_Iterate(StopMsgs(impl), MaxMsgs)
    \/ Run_Interrupted
    \/ Complete_GetMessage(StopMsgs(impl), MaxMsgs)
    \/ Run_Cleanup

SpecStop == InitStop /\ [][NextStop]_vars

\* C23: once stop() has been called on a RawInputReader, whenever that was
\* (before run() began its loop included), the loop test that follows finds
\* the flag cleared and the loop exits: from the top of the loop run() goes
\* nowhere but to its cleanup.
C23_StopEndsLoop ==
    [][(impl = "RawInputReader" /\ stopped_at >= 0 /\ pc = "loop" /\ pc' # pc)
         => pc' = "cleanup"]_vars

\* C24: a stop() that arrives while RawInputReader.run is inside an
\* iteration lets the message of that iteration finish: a pointer report
\* handled with the flag already cleared is decoded and its event delivered,
\* and the loop is not left before; at the loop test that finds the flag
\* cleared the loop exits; once it has exited no message is handled and no
\* event delivered any more.
C24_StopLetsMessageFinish ==
    [][impl = "RawInputReader" =>
         /\ (pc = "body" /\ ~running /\ HandledStep) =>
              /\ pc' = "loop"
              /\ (callback /\ NewEntry.msg = MouseMsg(5, 0, 0, 0)) =>
                   /\ Len(delivered') = Len(delivered) + 1
                   /\ SubSeq(delivered', 1, Len(delivered)) = delivered
                   /\ delivered'[Len(delivered')].type = "mouse_move"
                   /\ delivered'[Len(delivered')].delta_x = 5
                   /\ NewEntry.outcome = "ok"
         /\ (pc = "loop" /\ ~running /\ pc' # pc) => pc' = "cleanup"
         /\ pc \in {"cleanup", "done"} =>
              (processed' = processed /\ delivered' = delivered)]_vars

\* stop() came inside the iteration that handled the first pointer report
\* (nothing was handled before the call, and no stop() followed); the report
\* was delivered, the next loop test ended the loop and run() returned
C24_Witness ==
    /\ impl = "RawInputReader"
    /\ stopped_at = 0
    /\ ~running
    /\ Len(processed) = 1
    /\ processed[1].msg = MouseMsg(5, 0, 0, 0)
    /\ Len(delivered) = 1
    /\ delivered[1].type = "mouse_move"
    /\ run_exit.cause = "stop"
    /\ pc = "done"

\* run() has been called and its thread is scheduled: a step of run() that
\* can be taken is taken.  Nothing is assumed of stop() or of an interrupt.
SpecStopFair ==
    /\ SpecStop
    /\ WF_vars(Complete_Run_CreateWindow)
    /\ WF_vars(Run_Register(SomeRegEnvs(impl)))
    /\ WF_vars(Run_SetRunning)
    /\ WF_vars(Run_LoopTest)
    /\ WF_vars(Run_Iterate(StopMsgs(impl), MaxMsgs))
    /\ WF_vars(Complete_GetMessage(StopMsgs(impl), MaxMsgs))
    /\ WF_vars(Run_Cleanup)

\* C25: the window is destroyed by cleanup() only, once the loop has been
\* left, and it is gone when run() has returned; and a reader on which stop()
\* was called is eventually cleaned up: the window it holds is destroyed and
\* run() returns.
C25_StoppedReaderCleanedUp ==
    /\ [][(windowAlive /\ ~windowAlive') => (pc = "cleanup" /\ pc' = "done")]_vars
    /\ [](pc = "done" => ~windowAlive)
    /\ (stopped_at >= 0 /\ windowAlive) ~> (pc = "done" /\ ~windowAlive)

\* C26: a fatal error of the message retrieval ends the loop and is reported
\* to the caller of run(): what run() hands back after a retrieval error
\* differs from what it hands back after a normal stop or quit, which is
\* None.
C26_RetrievalErrorReported ==
    pc = "done" =>
      /\ run_exit.cause \in {"stop", "quit"} => run_exit.returned = "None"
      /\ run_exit.cause = "error" => run_exit.returned # "None"

-----------------------------------------------------------------------------
(* The loop of RawInputReader.run with the clock *)

\* seconds between the clock readings of two successive iterations
ClockSteps == {0, 1}

\* the messages the loop may retrieve while the clock runs: a pointer report
\* and a message of another kind
TimeMsgs == { MouseMsg(5, 0, 0, 0) } \cup OtherMsgs

InitTime ==
    /\ Init
    /\ impl = "RawInputReader"
    /\ hwnd = 1

NextTime ==
    \/ SetCallback
    \/ Stop
    \/ Run_Register(SomeRegEnvs(impl))
    \/ Run_SetRunning
    \/ Run_LoopTest
    \/ Run_IterateAt(TimeMsgs, MaxMsgs, ClockSteps)
    \/ Run_Cleanup

SpecTime == InitTime /\ [][NextTime]_vars

\* the clock reading of the latest activity report, or of the start of the
\* loop (the clock reads 0 until the loop iterates) when there is none yet
LastSnapshotTime ==
    IF reports = <<>> THEN 0 ELSE reports[Len(reports)].time

\* C27: while the loop is Running an activity snapshot is emitted at least
\* once in every reporting interval, whether or not raw-input messages
\* arrive: the clock never reads more than the interval, plus the one second
\* between two readings, past the latest snapshot.
C27_SnapshotEveryInterval ==
    (pc \in {"loop", "body"} /\ running) =>
        now - LastSnapshotTime <= activity_check_interval + 1

-----------------------------------------------------------------------------
(* The same report handled again *)

\* every message the loop has handled so far is the same raw report, decoded
\* without error
SameReportAgain ==
    /\ Len(processed) >= 2
    /\ \A i \in DOMAIN processed :
         /\ processed[i].msg = processed[1].msg
         /\ processed[i].outcome = "ok"

\* the events delivered for the i-th of n handlings of the same report
EventsOfHandling(i, n) ==
    LET k == Len(delivered) \div n
    IN  SubSeq(delivered, (i - 1) * k + 1, i * k)

\* the fields of an event of RawInputReader that come from the bytes of the
\* report, without the running total the event also carries
DecodedFields(e) ==
    CASE e.type = "mouse_move" -> <<e.type, e.delta_x, e.delta_y, e.flags>>
      [] e.type = "mouse_wheel" -> <<e.type, e.delta>>
      [] e.type = "mouse_button" -> <<e.type, e.button, e.state>>
      [] e.type = "keyboard" ->
           <<e.type, e.vkey, e.scan_code, e.flags, e.state>>
      [] e.type = "hid" ->
           <<e.type, e.device_handle, e.size, e.count, e.raw_bytes>>

DecodedFieldsOf(evs) == [j \in DOMAIN evs |-> DecodedFields(evs[j])]

\* C28 as claimed: handling the same raw report again yields events equal to
\* those of the first handling in every field (the model's events carry no
\* timestamp).
C28_SameReportSameEvents ==
    (impl = "RawInputReader" /\ callback /\ SameReportAgain) =>
        \A i \in DOMAIN processed :
            EventsOfHandling(i, Len(processed))
              = EventsOfHandling(1, Len(processed))

\* C28: handling the same raw report again yields as many events as the
\* first handling, equal to them in every field decoded from the report; the
\* running totals the events carry are left out of the comparison.
C28_SameReportSameDecodedFields ==
    (impl = "RawInputReader" /\ callback /\ SameReportAgain) =>
        /\ Len(delivered) % Len(processed) = 0
        /\ \A i \in DOMAIN processed :
             DecodedFieldsOf(EventsOfHandling(i, Len(processed)))
               = DecodedFieldsOf(EventsOfHandling(1, Len(processed)))

\* the pointer report (5, 0) with the left button pressed was handled twice:
\* two events each time, the same but for total_x and click_count
C28_Witness ==
    /\ impl = "RawInputReader"
    /\ callback
    /\ SameReportAgain
    /\ Len(processed) = 2
    /\ processed[1].msg = MouseMsg(5, 0, RI_MOUSE_LEFT_BUTTON_DOWN, 0)
    /\ Len(delivered) = 4
    /\ delivered[1].total_x = 5
    /\ delivered[3].total_x = 10
    /\ delivered[2].click_count = 1
    /\ delivered[4].click_count = 2

-----------------------------------------------------------------------------
(* The capture loop and the consumer side by side *)

\* the reports the loop retrieves: motion with a button press, and a wheel
\* notch
OwnMsgs ==
    { MouseMsg(5, 0, RI_MOUSE_LEFT_BUTTON_DOWN, 0),
      MouseMsg(0, 0, RI_MOUSE_WHEEL, 120) }

\* the callback of the reader is raw_input_callback: the event the reader
\* handed to it last and that is not yet on the queue
PendingEvents ==
    IF Len(pushed) < Len(delivered) THEN {delivered[Len(pushed) + 1]} ELSE {}

NextOwnership ==
    \/ SetCallback
    \/ Run_Register({AllOf(5, "ok")})
    \/ Run_SetRunning
    \/ Run_LoopTest
    \/ Run_Iterate(OwnMsgs, MaxMsgs)
    \/ raw_input_callback(PendingEvents, Len(delivered))
    \/ animate
    \/ process_raw_input_data_Test
    \/ process_raw_input_data_Get
    \/ process_raw_input_data_Handle

SpecOwnership == InitChannel /\ [][NextOwnership]_vars

\* the items whose handler has run
HandledItems ==
    IF tpc = "handle" THEN SubSeq(consumed, 1, Len(consumed) - 1)
    ELSE consumed

RECURSIVE WheelOfItems(_, _)
\* the sum of the delta fields of the wheel events among the first n items
WheelOfItems(items, n) ==
    IF n = 0 THEN 0
    ELSE WheelOfItems(items, n - 1)
         + (IF items[n].data.type = "mouse_wheel" THEN items[n].data.delta
            ELSE 0)

\* the number of button events with state Down among items
PressesOfItems(items) ==
    Cardinality({i \in DOMAIN items :
                   /\ items[i].data.type = "mouse_button"
                   /\ items[i].data.state = "Down"})

\* C29: the reader's counters are written on the capture loop's context only
\* and the consumer neither writes nor reads them: a step of the consumer
\* leaves the reader's state alone, the counters change only inside an
\* iteration of the loop, a put of the callback changes nothing of the
\* consumer but the queue, and the consumer's totals are those of the fields
\* of the events it has handled, whatever the reader's counters are by then.
C29_CountersOwnedByCapture ==
    /\ [][/\ (tpc' # tpc \/ tracker' # tracker \/ drain_data' # drain_data
              \/ consumed' # consumed)
             => (stats' = stats /\ delivered' = delivered
                 /\ processed' = processed /\ running' = running)
          /\ stats' # stats => (pc = "body" /\ tracker' = tracker)
          /\ Len(pushed') > Len(pushed)
             => (tracker' = tracker /\ tpc' = tpc /\ drain_data' = drain_data
                 /\ consumed' = consumed
                 /\ SubSeq(input_queue', 1, Len(input_queue)) = input_queue)
         ]_vars
    /\ [](/\ tracker.wheel_delta
               = WheelOfItems(HandledItems, Len(HandledItems))
          /\ tracker.click_count = PressesOfItems(HandledItems))

\* the reader has counted two wheel notches while the consumer has handled
\* the event of the first only
C29_Witness ==
    /\ stats.mouse_wheel_delta = 240
    /\ Len(pushed) = 2
    /\ Len(consumed) = 1
    /\ tpc = "test"
    /\ tracker.wheel_delta = 120

\* every rung of register_devices failed and no raw-input message has come
TotalRegistrationFailure ==
    /\ impl = "RawInputReader"
    /\ regResult = "false"
    /\ \A i \in DOMAIN processed : processed[i].msg.message # WM_INPUT

-----------------------------------------------------------------------------
(* Reports and messages that are dropped *)

\* messages that must leave no trace, and one that leaves one: a raw-input
\* message whose size query gives 0 (the fetch, where it is made, answering
\* an error or 0 bytes, in which case what is read as the report is whatever
\* the memory holds), a report of an unknown type, other kinds of message
\* (lParam being anything), the close request, and a pointer report
DropMsgs(cls) ==
    { [MouseMsg(5, 0, RI_MOUSE_LEFT_BUTTON_DOWN, 0)
         EXCEPT !.size = 0, !.fetched = FETCH_ERROR],
      [MouseMsg(5, 0, RI_MOUSE_LEFT_BUTTON_DOWN, 0)
         EXCEPT !.size = 0, !.fetched = 0],
      [MouseMsg(5, 0, RI_MOUSE_LEFT_BUTTON_DOWN, 0)
         EXCEPT !.dwType = RIM_TYPE_UNKNOWN],
      [MouseMsg(5, 0, RI_MOUSE_LEFT_BUTTON_DOWN, 0)
         EXCEPT !.message = WM_OTHER],
      MouseMsg(5, 0, 0, 0) }
    \cup OtherMsgs
    \cup (IF cls = "CompleteRawInputCapture"
          THEN { [BaseMsg EXCEPT !.message = WM_CLOSE] } ELSE {})

NextDrop ==
    \/ SetCallback
    \/ Improved_Run_CreateWindow
    \/ Complete_Run_CreateWindow
    \/ Run_Register(SomeRegEnvs(impl))
    \/ Run_SetRunning
    \/ Run_LoopTest
    \/ Run_Iterate(DropMsgs(impl), MaxMsgs)
    \/ Complete_GetMessage(DropMsgs(impl), MaxMsgs)
    \/ Improved_ProcessRawInput(DropMsgs(impl), MaxMsgs)
    \/ Run_Cleanup

SpecDrop == Init /\ [][NextDrop]_vars

\* C31: a raw-input message whose size query returns 0 is dropped before any
\* fetch (the method returns at the size test): no event is delivered, no
\* counter changes, raw_input_messages included, and the loop goes on.
C31_EmptyDroppedWithoutFetch ==
    [][(/\ impl \in {"RawInputReader", "ImprovedRawInputReader"}
        /\ HandledStep
        /\ NewEntry.msg.message = WM_INPUT
        /\ NewEntry.msg.size = 0) =>
           /\ NewEntry.outcome = "empty"
           /\ delivered' = delivered
           /\ stats' = stats
           /\ pc' \in {"loop", "mainloop"}
      ]_vars

\* C32: a report fetched in full whose type is none of pointer, keyboard and
\* HID is dropped: nothing is handed to the callback, no type-specific
\* counter changes, and the loop goes on with the next message.
C32_UnknownTypeDropped ==
    [][(/\ HandledStep
        /\ NewEntry.msg.message = WM_INPUT
        /\ NewEntry.msg.raise = "none"
        /\ NewEntry.msg.size # 0
        /\ NewEntry.msg.fetched = NewEntry.msg.size
        /\ NewEntry.msg.dwType
             \notin {RIM_TYPEMOUSE, RIM_TYPEKEYBOARD, RIM_TYPEHID}) =>
           /\ delivered' = delivered
           /\ TypeCounters(stats') = TypeCounters(stats)
           /\ pc' \in {"loop", "mainloop"}
           /\ running' = running
      ]_vars

\* a report of an unknown type left no event and no count behind, and the
\* pointer report after it was decoded and delivered
C32_Witness ==
    /\ impl = "RawInputReader"
    /\ callback
    /\ Len(processed) = 2
    /\ processed[1].msg.dwType = RIM_TYPE_UNKNOWN
    /\ processed[1].msg.fetched = processed[1].msg.size
    /\ processed[1].outcome = "unknown"
    /\ processed[2].msg = MouseMsg(5, 0, 0, 0)
    /\ processed[2].outcome = "ok"
    /\ Len(delivered) = 1
    /\ delivered[1].type = "mouse_move"
    /\ stats.mouse_clicks = 0
    /\ stats.hid_data_count = 0

\* C33: a retrieved message that is not WM_INPUT goes to the default
\* translate/dispatch handling only: nothing is handed to the callback and
\* every counter, raw_input_messages included, stays as it was.
C33_OtherMessagePassedThrough ==
    [][(HandledStep /\ NewEntry.msg.message # WM_INPUT) =>
           /\ NewEntry.outcome = "dispatched"
           /\ delivered' = delivered
           /\ stats' = stats
      ]_vars

\* a message of another kind, whose lParam would read as a pointer report
\* with a button pressed, was retrieved and dispatched: no event, every
\* counter still 0, and the loop is back at its test
C33_Witness ==
    /\ impl = "RawInputReader"
    /\ callback
    /\ Len(processed) = 1
    /\ processed[1].msg.message = WM_OTHER
    /\ processed[1].msg.usButtonFlags = RI_MOUSE_LEFT_BUTTON_DOWN
    /\ processed[1].outcome = "dispatched"
    /\ delivered = <<>>
    /\ stats = InitStats
    /\ pc = "loop"


-----------------------------------------------------------------------------
(* The tracker's movement handlers and its line history *)

\* the fields ModernMouseTracker.__init__ sets: it has no raw input, no
\* velocity and no direction (those fields stay as they are here and no
\* method of the class touches them), and current_x starts as None
InitModernTracker ==
    [InitTracker EXCEPT !.class = "ModernMouseTracker",
                        !.current_x = "None", !.current_y = "None"]

\* a fallback handler that recomputes the direction for every delta
on_mouse_move_AnySpeed(tr, point, recent, size) ==
    IF tr.raw_input_active /\ recent THEN tr
    ELSE LET dx == point[1] - tr.current_x
             dy == point[2] - tr.current_y
         IN  StorePoint(
                 [tr EXCEPT !.raw_delta_x = dx,
                            !.raw_delta_y = dy,
                            !.movement_velocity = Sqrt(dx * dx + dy * dy),
                            !.movement_direction = atan2(dy, dx),
                            !.total_mouse_movements = @ + 1,
                            !.current_x = Clamp(point[1], screen_width),
                            !.current_y = Clamp(point[2], screen_height)],
                 size)

\* AdvancedMouseTracker.on_mouse_move(event), the fallback bound to <Motion>;
\* point is (event.x, event.y) and recent tells whether less than 0.1 s
\* have passed since last_raw_input_time
on_mouse_move(tr, point, recent, size) ==
    IF tr.raw_input_active /\ recent THEN tr
    ELSE LET dx == point[1] - tr.current_x
             dy == point[2] - tr.current_y
             velocity == Sqrt(dx * dx + dy * dy)
         IN  StorePoint(
                 [tr EXCEPT !.raw_delta_x = dx,
                            !.raw_delta_y = dy,
                            !.movement_velocity = velocity,
                            !.movement_direction =
                                IF velocity > 0 THEN atan2(dy, dx) ELSE @,
                            !.total_mouse_movements = @ + 1,
                            !.current_x = Clamp(point[1], screen_width),
                            !.current_y = Clamp(point[2], screen_height)],
                 size)

\* ModernMouseTracker.on_mouse_move(event): the point is stored, then the
\* position is taken
Modern_on_mouse_move(tr, point, size) ==
    [StorePoint(tr, size) EXCEPT !.current_x = point[1],
                                 !.current_y = point[2]]

\* a reset that leaves the write position where it is
reset_history_points_CountOnly(tr) ==
    [tr EXCEPT !.history_count = 0, !.stored_since_reset = 0]

\* reset_history_points(), the same in both trackers
reset_history_points(tr) ==
    [tr EXCEPT !.history_count = 0, !.history_index = 0,
               !.stored_since_reset = 0]

\* reset_history(): the trail is cleared and the points are reset
reset_history(tr) == reset_history_points(tr)

\* toggle_history(), the same in both trackers: switched off, the points
\* are reset
toggle_history(tr) ==
    LET t == [tr EXCEPT !.show_line_history = ~@]
    IN  IF ~t.show_line_history THEN reset_history_points(t) ELSE t

\* a <Motion> event of Tk. The callbacks of Tk run one at a time on the
\* thread of the window, so none runs inside process_raw_input_data()
Tk_Motion(points, limit) ==
    /\ tpc = "tick"
    /\ IF tracker.class = "AdvancedMouseTracker"
       THEN tracker.total_mouse_movements < limit
       ELSE tracker.stored_since_reset < limit
    /\ \E point \in points, recent \in BOOLEAN :
         tracker' = IF tracker.class = "AdvancedMouseTracker"
                    THEN on_mouse_move(tracker, point, recent,
                                       max_history_points)
                    ELSE Modern_on_mouse_move(tracker, point,
                                              max_history_points)
    /\ UNCHANGED <<input_queue, pushed, consumed, tpc, drain_data>>
    /\ UNCHANGED worker
    /\ UNCHANGED readerVars

\* the Lines button or the L key
Tk_ToggleHistory ==
    /\ tpc = "tick"
    /\ tracker' = toggle_history(tracker)
    /\ UNCHANGED <<input_queue, pushed, consumed, tpc, drain_data>>
    /\ UNCHANGED worker
    /\ UNCHANGED readerVars

\* the Reset History button or the C key
Tk_ResetHistory ==
    /\ tpc = "tick"
    /\ tracker' = reset_history(tracker)
    /\ UNCHANGED <<input_queue, pushed, consumed, tpc, drain_data>>
    /\ UNCHANGED worker
    /\ UNCHANGED readerVars

\* the mouse_move events a reader hands to the callback: the delta of such
\* an event is never (0, 0)
HistoryEvents ==
    { MoveEvent(MoveStats(InitStats, MouseMsg(0, 5, 0, 0)),
                MouseMsg(0, 5, 0, 0)),
      MoveEvent(MoveStats(InitStats, MouseMsg(0, -5, 0, 0)),
                MouseMsg(0, -5, 0, 0)) }

\* either tracker from its construction on; only AdvancedMouseTracker has
\* a reader, a callback and a queue
InitHistory ==
    /\ InitCapture
    /\ impl = "RawInputReader"
    /\ hwnd = 1
    /\ tracker \in {InitTracker, InitModernTracker}

\* the methods of the queue belong to AdvancedMouseTracker
IsAdvanced == tracker.class = "AdvancedMouseTracker"

NextHistory ==
    \/ IsAdvanced /\ SetCallback
    \/ IsAdvanced /\ raw_input_callback(HistoryEvents, MaxHistoryMoves - 2)
    \/ IsAdvanced /\ animate
    \/ IsAdvanced /\ process_raw_input_data_Test
    \/ IsAdvanced /\ process_raw_input_data_Get
    \/ IsAdvanced /\ process_raw_input_data_Handle
    \/ Tk_Motion(CursorPoints, MaxHistoryMoves)
    \/ Tk_ToggleHistory
    \/ Tk_ResetHistory

SpecHistory == InitHistory /\ [][NextHistory]_vars


\* a step in which AdvancedMouseTracker handled one movement, through the
\* raw-input handler or through the fallback
MovementHandled ==
    /\ IsAdvanced
    /\ tracker'.total_mouse_movements = tracker.total_mouse_movements + 1

\* C34: the consumer's movement direction is recomputed only when the speed
\* of the handled delta is greater than 0. Every handled movement sets the
\* velocity to the speed of its delta; a movement whose delta is (0,0) sets
\* the velocity to 0 and leaves movement_direction as it was; the direction
\* changes only in a movement whose speed is greater than 0. The raw-input
\* handler is handed no delta of (0,0) by the reader, so its case is stated
\* on the handler itself: applied in any reachable state to a delta of
\* (0,0), it gives velocity 0 and the direction of that state.
C34_DirectionOnlyWhenMoving ==
    /\ [][MovementHandled =>
            /\ tracker'.movement_velocity =
                 Sqrt(tracker'.raw_delta_x * tracker'.raw_delta_x
                      + tracker'.raw_delta_y * tracker'.raw_delta_y)
            /\ (tracker'.raw_delta_x = 0 /\ tracker'.raw_delta_y = 0) =>
                 /\ tracker'.movement_velocity = 0
                 /\ tracker'.movement_direction = tracker.movement_direction
            /\ tracker'.movement_direction # tracker.movement_direction =>
                 tracker'.movement_velocity > 0]_vars
    /\ [](IsAdvanced =>
            \A point \in CursorPoints :
               LET t == handle_raw_mouse_movement(
                            tracker, [delta_x |-> 0, delta_y |-> 0], point,
                            max_history_points)
               IN  /\ t.movement_velocity = 0
                   /\ t.movement_direction = tracker.movement_direction)

\* the fallback handled a <Motion> event at the position the pointer already
\* had, after a raw movement straight down: the velocity is 0 and the
\* direction is still that of the raw movement
C34_Witness ==
    /\ IsAdvanced
    /\ Len(consumed) = 1
    /\ tpc = "tick"
    /\ tracker.total_mouse_movements = 2
    /\ tracker.raw_input_active
    /\ tracker.raw_delta_x = 0
    /\ tracker.raw_delta_y = 0
    /\ tracker.movement_velocity = 0
    /\ tracker.movement_direction = -90


\* C39: the line-history ring buffer keeps its invariants after any sequence
\* of movements, toggles and resets, in AdvancedMouseTracker and in
\* ModernMouseTracker: 0 <= history_index < max_history_points,
\* 0 <= history_count <= max_history_points, history_index is the number of
\* points stored since the last reset modulo max_history_points, and
\* history_count is the minimum of that number and max_history_points.
C39_RingBufferInvariants ==
    /\ tracker.history_index \in 0..(max_history_points - 1)
    /\ tracker.history_count \in 0..max_history_points
    /\ tracker.history_index = tracker.stored_since_reset % max_history_points
    /\ tracker.history_count =
         Min(tracker.stored_since_reset, max_history_points)

\* after a reset, more points than the buffer holds were stored: the write
\* position has gone round and the count stays at the size of the buffer
C39_Witness ==
    /\ IsAdvanced
    /\ tracker.show_line_history
    /\ tracker.stored_since_reset > max_history_points
    /\ tracker.total_mouse_movements > tracker.stored_since_reset
    /\ tracker.history_count = max_history_points
    /\ tracker.history_index = 1


-----------------------------------------------------------------------------
\* C35: in every reachable state of RawInputReader the type-specific
\* counters lag or equal the raw-message counter:
\* key_presses + hid_data_count <= raw_input_messages and
\* mouse_clicks <= raw_input_messages; and in every step of every reader no
\* counter other than the signed totals of motion and wheel decreases.
C35_CountersLagRawMessages ==
    /\ [](impl = "RawInputReader" =>
            /\ stats.key_presses + stats.hid_data_count
                 <= stats.raw_input_messages
            /\ stats.mouse_clicks <= stats.raw_input_messages)
    /\ [][/\ stats'.raw_input_messages >= stats.raw_input_messages
          /\ stats'.mouse_clicks >= stats.mouse_clicks
          /\ stats'.key_presses >= stats.key_presses
          /\ stats'.hid_data_count >= stats.hid_data_count
          /\ stats'.mouse_moves >= stats.mouse_moves]_vars

\* RawInputReader handled a keyboard report and a pointer report that only
\* moves: the raw-message counter is ahead of every type-specific counter
C35_Witness ==
    /\ impl = "RawInputReader"
    /\ Len(processed) = 2
    /\ processed[1].msg.dwType = RIM_TYPEKEYBOARD
    /\ processed[2].msg.dwType = RIM_TYPEMOUSE
    /\ processed[2].msg.usButtonFlags = 0
    /\ stats.raw_input_messages = 2
    /\ stats.key_presses = 1
    /\ stats.hid_data_count = 0
    /\ stats.mouse_clicks = 0
    /\ stats.total_mouse_x = 5


-----------------------------------------------------------------------------
\* the events the step handed to the callback
NewEvents == SubSeq(delivered', Len(delivered) + 1, Len(delivered'))

\* a step that handled a pointer report whose two fetches and decode went
\* through (a callback that raises has been handed its event)
PointerReportStep ==
    /\ HandledStep
    /\ NewEntry.msg.message = WM_INPUT
    /\ NewEntry.msg.dwType = RIM_TYPEMOUSE
    /\ \/ NewEntry.outcome = "ok"
       \/ NewEntry.outcome = "exception" /\ NewEntry.msg.raise \in {"cb1", "cb2"}

\* C36: a pointer report produces a MouseMove event if and only if its delta
\* is not (0,0): with a callback set, the handling of a pointer report hands
\* over a mouse_move event exactly when lLastX or lLastY is non-zero, and
\* never more than one; a report with lLastX = lLastY = 0 leaves the
\* cumulative totals unchanged, whatever its button flags.
C36_MoveEventIffDelta ==
    [][PointerReportStep =>
         LET msg   == NewEntry.msg
             moves == SelectSeq(NewEvents, IsMoveEvent)
         IN  /\ callback =>
                  Len(moves) = (IF msg.lLastX # 0 \/ msg.lLastY # 0
                                THEN 1 ELSE 0)
             /\ (msg.lLastX = 0 /\ msg.lLastY = 0) =>
                  /\ Len(moves) = 0
                  /\ stats'.total_mouse_x = stats.total_mouse_x
                  /\ stats'.total_mouse_y = stats.total_mouse_y]_vars

\* after a report that moved by (5,0), a report with a zero delta and the
\* left button pressed was handled: the only mouse_move event is that of
\* the first report, the second report gave the button event alone, and the
\* totals are those of the first report
C36_Witness ==
    /\ callback
    /\ impl \in {"RawInputReader", "CompleteRawInputCapture"}
    /\ Len(processed) = 2
    /\ processed[1].msg = MouseMsg(5, 0, 0, 0)
    /\ processed[2].msg = MouseMsg(0, 0, RI_MOUSE_LEFT_BUTTON_DOWN, 0)
    /\ processed[2].outcome = "ok"
    /\ Len(delivered) = 2
    /\ IsMoveEvent(delivered[1])
    /\ ~IsMoveEvent(delivered[2])
    /\ stats.total_mouse_x = 5
    /\ stats.total_mouse_y = 0


-----------------------------------------------------------------------------
-----------------------------------------------------------------------------
\* the kind of an event: its type and, for a mouse_button event, its button
\* and state
KindOf(e) ==
    IF e.type = "mouse_button" THEN <<e.type, e.button, e.state>>
    ELSE <<e.type, "", "">>

KindsOf(evs) == [i \in DOMAIN evs |-> KindOf(evs[i])]

\* the events the other of the two readers hands over for the same report
OtherReaderEvents(cls, msg) ==
    IF cls = "RawInputReader"
    THEN Improved_process_mouse_data(InitStats, msg, TRUE, 0).ev
    ELSE process_mouse_data(InitStats, msg, TRUE, 0).ev

\* C38: RawInputReader and ImprovedRawInputReader classify every
\* usButtonFlags into the same event kind: for each 16-bit value, values
\* that combine the wheel bit with a button bit included, the events one
\* reader delivers for a report have the same types, buttons and states as
\* those the other reader delivers for the same report.
C38_ReadersClassifyAlike ==
    (/\ impl \in {"RawInputReader", "ImprovedRawInputReader"}
     /\ callback
     /\ Len(processed) = 1
     /\ processed[1].msg.dwType = RIM_TYPEMOUSE
     /\ processed[1].outcome = "ok") =>
        KindsOf(delivered) = KindsOf(OtherReaderEvents(impl, processed[1].msg))

=============================================================================
